---- MODULE Spec2Model ----
(***************************************************************************)
(* A model of leafmap's folium backend, src/leafmap/foliumap.py: the Map   *)
(* class (a folium.Map subclass), its children, the figure it is rendered  *)
(* in, and the part of the file system its methods read and write.         *)
(*                                                                         *)
(* Python values are modelled as follows.  A string on which the code      *)
(* computes (startswith, endswith, len, "#" + s, path handling) is a       *)
(* sequence of one-character strings; a string that is only passed on is a *)
(* TLA+ string.  A dict is a record, or a sequence of <<key, value>> pairs  *)
(* where its order matters.  None is a record [kind |-> "None"] where it    *)
(* has to be told apart from other values.  A method call is one atomic    *)
(* action (the module is single-threaded); the variable "call" records the *)
(* last call with its arguments, the exception it raised and its result.   *)
(*                                                                         *)
(* Not modelled: the height/width options of the constructor (they only    *)
(* size the enclosing figure).  folium.Map.__init__, called at line 61,    *)
(* creates the map's default tile layer from its tiles option              *)
(* ("OpenStreetMap" unless the caller passes tiles=None).                   *)
(***************************************************************************)
EXTENDS Integers, Sequences, FiniteSets, TLC

VARIABLES
    children,      \* the map's child elements, in insertion order (self._children)
    rootChildren,  \* elements added to the enclosing figure (self.get_root())
    options,       \* self.options
    fitBounds,     \* the arguments of the last fit_bounds call, and n, the number of
                   \* fit_bounds calls made so far
    files,         \* the files on disk: a function from absolute path to content
    dirs,          \* the directories on disk
    nextId,        \* the number of elements created so far (stands for the uuid of the next)
    ncalls,        \* the number of method calls made since construction
    call,          \* the last method call: operation, arguments, exception, result
    styleDefaults  \* the default-argument style dicts of the add_osm_from_* methods:
                   \* one dict object per method, created when the class is defined

vars == <<children, rootChildren, options, fitBounds, files, dirs, nextId, ncalls, call,
          styleDefaults>>

(***************************************************************************)
(* Bounds of the model.                                                    *)
(***************************************************************************)
\* the largest number of method calls made on a Map after its construction
MaxCalls == 3

(***************************************************************************)
(* Strings as sequences of characters.                                     *)
(***************************************************************************)
\* str.startswith
StartsWith(s, p) == Len(s) >= Len(p) /\ SubSeq(s, 1, Len(p)) = p

\* str.endswith
EndsWith(s, p) == Len(s) >= Len(p) /\ SubSeq(s, Len(s) - Len(p) + 1, Len(s)) = p

HexDigits == <<"0", "1", "2", "3", "4", "5", "6", "7", "8", "9", "a", "b", "c", "d", "e", "f">>

\* the hexadecimal numeral of n, without leading zeros
RECURSIVE HexStr(_)
HexStr(n) == IF n < 16 THEN <<HexDigits[n + 1]>>
             ELSE HexStr(n \div 16) \o <<HexDigits[(n % 16) + 1]>>

(***************************************************************************)
(* Elements.  folium names an element by the snake-case form of its class  *)
(* name followed by "_" and the element's hexadecimal id (get_name); the   *)
(* keys of to_dict()["children"] are these names.                          *)
(***************************************************************************)
S_layer_control == <<"l", "a", "y", "e", "r", "_", "c", "o", "n", "t", "r", "o", "l">>
S_fullscreen == <<"f", "u", "l", "l", "s", "c", "r", "e", "e", "n">>
S_draw_control == <<"d", "r", "a", "w", "_", "c", "o", "n", "t", "r", "o", "l">>
S_measure_control == <<"m", "e", "a", "s", "u", "r", "e", "_", "c", "o", "n", "t", "r", "o", "l">>
S_lat_lng_popup == <<"l", "a", "t", "_", "l", "n", "g", "_", "p", "o", "p", "u", "p">>
S_mini_map == <<"m", "i", "n", "i", "_", "m", "a", "p">>
S_tile_layer == <<"t", "i", "l", "e", "_", "l", "a", "y", "e", "r">>
S_geo_json == <<"g", "e", "o", "_", "j", "s", "o", "n">>
S_macro_element == <<"m", "a", "c", "r", "o", "_", "e", "l", "e", "m", "e", "n", "t">>

\* None
None == [kind |-> "None"]

\* a str value
Str(s) == [kind |-> "str", s |-> s]

NoInfo == None

\* a new element of class cls with the next id; info holds what the code passed to its constructor
Element(cls, id, info) == [cls |-> cls, id |-> id, info |-> info]

\* the key of an element in to_dict()["children"]: the name given to add_child, by
\* default the element's get_name()
ElementName(e) == IF "key" \in DOMAIN e THEN e.key ELSE e.cls \o <<"_">> \o HexStr(e.id)

\* layer.add_to(self): append the element to the map's children
AddTo(chs, e) == Append(chs, e)

IsLayerControl(e) == e.cls = S_layer_control

NumLayerControls(chs) == Cardinality({i \in DOMAIN chs : IsLayerControl(chs[i])})

(***************************************************************************)
(* Map.__init__                                                            *)
(***************************************************************************)
Has(kwargs, k) == k \in DOMAIN kwargs

\* a Python truth value
Truthy(v) == v = TRUE

DefaultLatLon == <<40, -100>>
DefaultZoom == 4

\* a constructor that prefers location to center
KwLocation_locationFirst(kwargs) ==
    IF Has(kwargs, "location") THEN kwargs.location
    ELSE IF Has(kwargs, "center") THEN kwargs.center
    ELSE DefaultLatLon

\* lines 24-29: the center of the map
KwLocation(kwargs) == IF Has(kwargs, "center") THEN kwargs.center
                      ELSE IF Has(kwargs, "location") THEN kwargs.location
                      ELSE DefaultLatLon

KwZoom(kwargs) == IF Has(kwargs, "zoom") THEN kwargs.zoom
                  ELSE IF Has(kwargs, "zoom_start") THEN kwargs.zoom_start
                  ELSE DefaultZoom

\* a boolean gate of the constructor with its default
KwFlag(kwargs, k, default) == IF Has(kwargs, k) THEN kwargs[k] ELSE default

LowerCase == <<"a", "b", "c", "d", "e", "f", "g", "h", "i", "j", "k", "l", "m",
               "n", "o", "p", "q", "r", "s", "t", "u", "v", "w", "x", "y", "z">>
UpperCase == <<"A", "B", "C", "D", "E", "F", "G", "H", "I", "J", "K", "L", "M",
               "N", "O", "P", "Q", "R", "S", "T", "U", "V", "W", "X", "Y", "Z">>

\* str.upper
Upper(s) == [i \in 1..Len(s) |->
               IF \E k \in 1..26 : LowerCase[k] = s[i]
               THEN UpperCase[CHOOSE k \in 1..26 : LowerCase[k] = s[i]]
               ELSE s[i]]

S_ROADMAP == <<"R", "O", "A", "D", "M", "A", "P">>
S_HYBRID == <<"H", "Y", "B", "R", "I", "D">>
S_TERRAIN == <<"T", "E", "R", "R", "A", "I", "N">>
S_SATELLITE == <<"S", "A", "T", "E", "L", "L", "I", "T", "E">>

\* a Google tile layer: its name and the lyrs parameter of its tiles URL
GoogleTiles(name, lyrs) ==
    [kind |-> "tile", name |-> name, tiles |-> lyrs, attr |-> "Google", overlay |-> TRUE]

\* a google_map option compared without folding its case
GoogleLayer_caseSensitive(kwargs) ==
    IF ~Has(kwargs, "google_map") THEN <<GoogleTiles("Google Maps", "m")>>
    ELSE IF kwargs.google_map = None THEN <<>>
    ELSE IF kwargs.google_map.s = S_ROADMAP THEN <<GoogleTiles("Google Maps", "m")>>
    ELSE IF kwargs.google_map.s = S_HYBRID THEN <<GoogleTiles("Google Satellite", "y")>>
    ELSE IF kwargs.google_map.s = S_TERRAIN THEN <<GoogleTiles("Google Terrain", "p")>>
    ELSE IF kwargs.google_map.s = S_SATELLITE THEN <<GoogleTiles("Google Satellite", "s")>>
    ELSE <<GoogleTiles("Google Maps", "m")>>

\* the tile layer selected by google_map: <<>> when there is none, else <<layer>>
GoogleLayer(kwargs) ==
    IF ~Has(kwargs, "google_map") THEN <<GoogleTiles("Google Maps", "m")>>
    ELSE IF kwargs.google_map = None THEN <<>>
    ELSE IF Upper(kwargs.google_map.s) = S_ROADMAP THEN <<GoogleTiles("Google Maps", "m")>>
    ELSE IF Upper(kwargs.google_map.s) = S_HYBRID THEN <<GoogleTiles("Google Satellite", "y")>>
    ELSE IF Upper(kwargs.google_map.s) = S_TERRAIN THEN <<GoogleTiles("Google Terrain", "p")>>
    ELSE IF Upper(kwargs.google_map.s) = S_SATELLITE
         THEN <<GoogleTiles("Google Satellite", "s")>>
    ELSE <<GoogleTiles("Google Maps", "m")>>

S_openstreetmap == <<"o", "p", "e", "n", "s", "t", "r", "e", "e", "t", "m", "a", "p">>

\* super().__init__(**kwargs): folium.Map.__init__ adds the tile layer of its tiles
\* option, "OpenStreetMap" by default, under the key of its tile name, unless tiles is
\* None
BaseTiles(kwargs) ==
    IF Has(kwargs, "tiles") /\ kwargs.tiles = None THEN <<>>
    ELSE <<[kind |-> "tile", name |-> "openstreetmap", overlay |-> FALSE]>>

\* a constructor that attaches the minimap unless told not to
InitControls_minimapDefault(kwargs) ==
    (IF Truthy(KwFlag(kwargs, "fullscreen_control", TRUE)) THEN <<S_fullscreen>> ELSE <<>>)
    \o (IF Truthy(KwFlag(kwargs, "draw_control", TRUE)) THEN <<S_draw_control>> ELSE <<>>)
    \o (IF Truthy(KwFlag(kwargs, "measure_control", TRUE)) THEN <<S_measure_control>> ELSE <<>>)
    \o (IF Truthy(KwFlag(kwargs, "latlon_control", TRUE)) THEN <<S_lat_lng_popup>> ELSE <<>>)
    \o (IF Truthy(KwFlag(kwargs, "minimap_control", TRUE)) THEN <<S_mini_map>> ELSE <<>>)

\* the classes of the controls the constructor attaches, in order
InitControls(kwargs) ==
    (IF Truthy(KwFlag(kwargs, "fullscreen_control", TRUE)) THEN <<S_fullscreen>> ELSE <<>>)
    \o (IF Truthy(KwFlag(kwargs, "draw_control", TRUE)) THEN <<S_draw_control>> ELSE <<>>)
    \o (IF Truthy(KwFlag(kwargs, "measure_control", TRUE)) THEN <<S_measure_control>> ELSE <<>>)
    \o (IF Truthy(KwFlag(kwargs, "latlon_control", TRUE)) THEN <<S_lat_lng_popup>> ELSE <<>>)
    \o (IF Truthy(KwFlag(kwargs, "minimap_control", FALSE)) THEN <<S_mini_map>> ELSE <<>>)

\* the children of a Map just constructed: the tile layer of folium.Map, the controls,
\* the Google tile layer
InitChildren(kwargs) ==
    LET base == BaseTiles(kwargs)
        ctl == InitControls(kwargs)
        tl == GoogleLayer(kwargs)
    IN [i \in 1..Len(base) |->
            Element(S_tile_layer, 0, base[i]) @@ [key |-> S_openstreetmap]]
       \o [i \in 1..Len(ctl) |-> Element(ctl[i], Len(base) + i - 1, NoInfo)]
       \o [i \in 1..Len(tl) |-> Element(S_tile_layer, Len(base) + Len(ctl), tl[i])]

InitOptions(kwargs) ==
    [layersControl |-> IF ~Has(kwargs, "layers_control") THEN TRUE ELSE kwargs.layers_control]

\* the keyword arguments a Map is constructed with
KwargsSet ==
    { <<>>,
      [layers_control |-> TRUE],
      [layers_control |-> FALSE],
      [layers_control |-> FALSE, google_map |-> None, draw_control |-> FALSE,
       fullscreen_control |-> FALSE, measure_control |-> FALSE, latlon_control |-> FALSE],
      [center |-> <<10, 20>>, zoom |-> 7, minimap_control |-> TRUE,
       google_map |-> Str(<<"h", "y", "b", "r", "i", "d">>)] }

(***************************************************************************)
(* The file system.                                                        *)
(***************************************************************************)
Cwd == <<"/", "w">>

S_html == <<".", "h", "t", "m", "l">>

\* os.path.abspath of a path without "." and ".." components
AbsPath(p) == IF StartsWith(p, <<"/">>) THEN p ELSE Cwd \o <<"/">> \o p

\* os.path.dirname of an absolute path: what precedes the last "/"
DirName(p) ==
    LET last == CHOOSE i \in 1..Len(p) : p[i] = "/" /\ \A j \in (i + 1)..Len(p) : p[j] # "/"
    IN IF last = 1 THEN <<"/">> ELSE SubSeq(p, 1, last - 1)

\* os.path.exists
Exists(p) == p \in dirs \/ p \in DOMAIN files

\* an export that does not create the directory
MakeDirs_none(d) == dirs

\* os.makedirs: the directory and its missing ancestors
MakeDirs(d) == dirs \cup {SubSeq(d, 1, i) : i \in {j \in 2..Len(d) : j = Len(d) \/ d[j + 1] = "/"}}

\* the document folium renders for the map in its figure
Render(chs, rootchs) == [kind |-> "html", map |-> chs, root |-> rootchs]

\* self.save(path): write the rendered document
Save(fs, p, chs, rootchs) == [q \in DOMAIN fs \cup {p} |-> IF q = p THEN Render(chs, rootchs) ELSE fs[q]]

\* os.remove
Remove(fs, p) == [q \in DOMAIN fs \ {p} |-> fs[q]]

GeoData == [kind |-> "geojson", data |-> "D1", valid |-> TRUE]

P_geojson == <<"g", ".", "j", "s", "o", "n">>

P_text == <<"t", ".", "t", "x", "t">>

P_shp == <<"v", ".", "s", "h", "p">>

P_links == <<"l", ".", "t", "x", "t">>

\* the files of the working directory: a GeoJSON file, a text file, a shapefile and a
\* list of COG links under a header line
InitFiles == [q \in {AbsPath(P_geojson), AbsPath(P_text), AbsPath(P_shp), AbsPath(P_links)} |->
                 IF q = AbsPath(P_geojson) THEN GeoData
                 ELSE IF q = AbsPath(P_shp) THEN [kind |-> "shp", data |-> "V"]
                 ELSE IF q = AbsPath(P_links)
                 THEN [kind |-> "text", lines |-> <<"url", "c1", "c2">>]
                 ELSE [kind |-> "text"]]

InitDirs == {<<"/">>, Cwd}

(***************************************************************************)
(* Initial state: a Map just constructed.                                  *)
(***************************************************************************)
\* Map(**kwargs)
\* the methods with a `style={}` default argument (lines 367, 411, 452, 493, 532, 573)
OsmMethods ==
    {"add_osm_from_geocode", "add_osm_from_address", "add_osm_from_place",
     "add_osm_from_point", "add_osm_from_polygon", "add_osm_from_bbox"}

MapInit(kwargs) ==
    /\ children = InitChildren(kwargs)
    /\ rootChildren = <<>>
    /\ options = InitOptions(kwargs)
    /\ fitBounds = [bounds |-> <<KwLocation(kwargs), KwLocation(kwargs)>>,
                    max_zoom |-> KwZoom(kwargs), n |-> 1]
    /\ files = InitFiles
    /\ dirs = InitDirs
    /\ nextId = Len(InitChildren(kwargs))
    /\ ncalls = 0
    /\ call = [op |-> "__init__", kwargs |-> kwargs, err |-> "none"]
    /\ styleDefaults = [f \in OsmMethods |-> <<>>]

Init == \E kwargs \in KwargsSet : MapInit(kwargs)

(***************************************************************************)
(* add_layer_control, _repr_mimebundle_                                    *)
(***************************************************************************)
S_LayerControl == <<"L", "a", "y", "e", "r", "C", "o", "n", "t", "r", "o", "l">>

\* a scan for the class name instead of the element name
HasLayerControl_classname(chs) ==
    \E i \in DOMAIN chs : StartsWith(ElementName(chs[i]), S_LayerControl)

\* the scan of add_layer_control: some child's name starts with "layer_control"
HasLayerControl(chs) == \E i \in DOMAIN chs : StartsWith(ElementName(chs[i]), S_layer_control)

\* the children after add_layer_control
WithLayerControl(chs, id) ==
    IF ~HasLayerControl(chs) THEN AddTo(chs, Element(S_layer_control, id, NoInfo)) ELSE chs

\* an export that does not call add_layer_control
EnsureLayerControl_skipped(chs, id, opts) == chs

\* if self.options["layersControl"]: self.add_layer_control()
EnsureLayerControl(chs, id, opts) ==
    IF Truthy(opts.layersControl) THEN WithLayerControl(chs, id) ELSE chs

\* Map.add_layer_control
add_layer_control(cap) ==
    LET chs == WithLayerControl(children, nextId)
        n == Len(chs) - Len(children)
    IN /\ ncalls < cap
       /\ ncalls' = ncalls + 1
       /\ children' = chs
       /\ nextId' = nextId + n
       /\ call' = [op |-> "add_layer_control", err |-> "none"]
       /\ UNCHANGED <<styleDefaults, rootChildren, options, fitBounds, files, dirs>>

\* Map._repr_mimebundle_
repr_mimebundle(cap) ==
    LET chs == EnsureLayerControl(children, nextId, options)
        n == Len(chs) - Len(children)
    IN /\ ncalls < cap
       /\ ncalls' = ncalls + 1
       /\ children' = chs
       /\ nextId' = nextId + n
       /\ call' = [op |-> "_repr_mimebundle_", err |-> "none"]
       /\ UNCHANGED <<styleDefaults, rootChildren, options, fitBounds, files, dirs>>

(***************************************************************************)
(* to_html                                                                 *)
(***************************************************************************)
\* the names random_string() may return (leafmap.common)
RandomStrings == {<<"a">>, <<"r">>}

\* Map.to_html; outfile is None or a str
to_html(outfile, cap) ==
    LET chs == EnsureLayerControl(children, nextId, options)
        n == Len(chs) - Len(children)
    IN /\ ncalls < cap
       /\ ncalls' = ncalls + 1
       /\ children' = chs
       /\ nextId' = nextId + n
       /\ UNCHANGED <<styleDefaults, rootChildren, options, fitBounds>>
       /\ IF outfile # None
          THEN IF ~EndsWith(outfile.s, S_html)
               THEN /\ call' = [op |-> "to_html", outfile |-> outfile, err |-> "ValueError"]
                    /\ UNCHANGED <<files, dirs>>
               ELSE LET path == AbsPath(outfile.s)
                        out_dir == DirName(path)
                    IN /\ dirs' = IF ~Exists(out_dir) THEN MakeDirs(out_dir) ELSE dirs
                       /\ files' = Save(files, path, chs, rootChildren)
                       /\ call' = [op |-> "to_html", outfile |-> outfile, err |-> "none",
                                   path |-> path, ret |-> None]
          ELSE \E r \in RandomStrings :
                   LET path == AbsPath(r \o S_html)
                   IN /\ files' = Remove(Save(files, path, chs, rootChildren), path)
                      /\ dirs' = dirs
                      /\ call' = [op |-> "to_html", outfile |-> outfile, err |-> "none",
                                  path |-> path,
                                  ret |-> Save(files, path, chs, rootChildren)[path]]

\* the outfile arguments of to_html
Outfiles ==
    { None,
      Str(<<"a", ".", "h", "t", "m", "l">>),
      Str(<<"d", "/", "e", "/", "b", ".", "h", "t", "m", "l">>),
      Str(<<"c", ".", "h", "t", "m">>),
      Str(<<"x", "/", "c", ".", "t", "x", "t">>),
      Str(<<"h", "t", "m", "l">>) }

(***************************************************************************)
(* add_tile_layer                                                          *)
(***************************************************************************)
\* Map.add_tile_layer; ok: the TileLayer constructor accepts the arguments
add_tile_layer(name, ok, cap) ==
    /\ ncalls < cap
    /\ ncalls' = ncalls + 1
    /\ IF ok
       THEN /\ children' = AddTo(children, Element(S_tile_layer, nextId,
                                                  [kind |-> "tile", name |-> name]))
            /\ nextId' = nextId + 1
            /\ call' = [op |-> "add_tile_layer", name |-> name, err |-> "none"]
       ELSE /\ call' = [op |-> "add_tile_layer", name |-> name, err |-> "Exception",
                        cause |-> "collaborator"]
            /\ UNCHANGED <<children, nextId>>
    /\ UNCHANGED <<styleDefaults, rootChildren, options, fitBounds, files, dirs>>

(***************************************************************************)
(* add_geojson                                                             *)
(***************************************************************************)
S_http == <<"h", "t", "t", "p">>

\* the outcome of lines 1084-1104: the GeoJSON data, or the exception that leaves the method.
\* net: whether requests.get(url).json() succeeds
LoadGeojson(in_geojson, net, fs, ds) ==
    IF in_geojson.kind = "str"
    THEN IF StartsWith(in_geojson.s, S_http)
         THEN IF net
              THEN [err |-> "none", data |-> [kind |-> "geojson", data |-> "remote", valid |-> TRUE]]
              ELSE [err |-> "Exception", cause |-> "collaborator"]
         ELSE LET path == AbsPath(in_geojson.s)
              IN IF ~(path \in ds \/ path \in DOMAIN fs)
                 THEN [err |-> "Exception", cause |-> "FileNotFoundError"]
                 ELSE IF path \in DOMAIN fs /\ fs[path].kind = "geojson"
                      THEN [err |-> "none", data |-> fs[path]]
                      ELSE [err |-> "Exception", cause |-> "collaborator"]
    ELSE IF in_geojson.kind = "dict"
         THEN [err |-> "none", data |-> in_geojson]
         ELSE [err |-> "Exception", cause |-> "TypeError"]

\* lambda x: d
Const(d) == [kind |-> "const", dict |-> d]

\* the style dict of lines 1113-1123
DefaultStyle == [color |-> "#000000", weight |-> 1, opacity |-> 1, fillOpacity |-> "0.1"]

\* style_dict after lines 1107-1124
StyleDict(kwargs) == IF Has(kwargs, "style") THEN kwargs.style ELSE DefaultStyle

\* len(d) of a dict
DictLen(d) == Cardinality(DOMAIN d)

\* a style function in which the callback wins over fill_colors
StyleFunction_callbackFirst(kwargs) ==
    IF Has(kwargs, "style_callback") /\ kwargs.style_callback # None
    THEN kwargs.style_callback
    ELSE IF Has(kwargs, "fill_colors")
    THEN [kind |-> "random_color", dict |-> StyleDict(kwargs),
          fill_colors |-> kwargs.fill_colors]
    ELSE IF Has(kwargs, "style")
    THEN IF DictLen(kwargs.style) > 0 THEN Const(kwargs.style) ELSE None
    ELSE Const(DefaultStyle)

\* kwargs["style_function"] after line 1149, None when the key is not set
StyleFunction(kwargs) ==
    LET from_style == IF Has(kwargs, "style")
                      THEN IF DictLen(kwargs.style) > 0 THEN Const(kwargs.style) ELSE None
                      ELSE Const(DefaultStyle)
        from_callback == IF Has(kwargs, "style_callback") /\ kwargs.style_callback # None
                         THEN kwargs.style_callback
                         ELSE from_style
    IN IF Has(kwargs, "fill_colors")
       THEN [kind |-> "random_color", dict |-> StyleDict(kwargs),
             fill_colors |-> kwargs.fill_colors]
       ELSE from_callback

\* the outcome of lines 1131-1138: kwargs["highlight_function"] (None when the key
\* is not set), or the exception raised
HighlightFunction(kwargs) ==
    IF Has(kwargs, "hover_style")
    THEN [err |-> "none",
          f |-> IF DictLen(kwargs.hover_style) > 0 THEN Const(kwargs.hover_style) ELSE None]
    ELSE IF "weight" \in DOMAIN StyleDict(kwargs)
         THEN [err |-> "none",
               f |-> Const([weight |-> StyleDict(kwargs).weight + 1, fillOpacity |-> "0.5"])]
         ELSE [err |-> "KeyError", f |-> None]

\* the styles a style function may return for a feature
StyleValues(f) ==
    IF f = None THEN {<<>>}
    ELSE IF f.kind = "const" THEN {f.dict}
    ELSE IF f.kind = "random_color"
    THEN {[k \in DOMAIN f.dict \cup {"fillColor"} |->
              IF k = "fillColor" THEN f.fill_colors[i] ELSE f.dict[k]] : i \in DOMAIN f.fill_colors}
    ELSE {[callback |-> f.f]}

\* the outcome of add_geojson on a map with children chs and next element id: the
\* exception raised (res), and the children and next id it leaves
GeojsonOutcome(a, net, chs, id, fs, ds) ==
    LET loaded == LoadGeojson(a.in_geojson, net, fs, ds)
        highlight == HighlightFunction(a.kwargs)
        unchanged == [children |-> chs, nextId |-> id]
    IN IF loaded.err # "none"
       THEN unchanged @@ [res |-> [err |-> loaded.err, cause |-> loaded.cause]]
       ELSE IF highlight.err # "none"
       THEN unchanged @@ [res |-> [err |-> highlight.err]]
       ELSE IF ~loaded.data.valid
       THEN unchanged @@ [res |-> [err |-> "ValueError", cause |-> "collaborator"]]
       ELSE [res |-> [err |-> "none"],
             children |-> AddTo(chs, Element(S_geo_json, id,
                                   [kind |-> "geojson", name |-> a.layer_name,
                                    data |-> loaded.data,
                                    style_function |-> StyleFunction(a.kwargs),
                                    highlight_function |-> highlight.f])),
             nextId |-> id + 1]

\* d[k] = v on a dict
SetItem(d, k, v) == [x \in DOMAIN d \cup {k} |-> IF x = k THEN v ELSE d[x]]

\* whether the function built at lines 1143-1145 writes into a dict that it was
\* given: style_dict is kwargs["style"] itself (line 1108), not a copy
WritesStyle(kwargs) == Has(kwargs, "style") /\ Has(kwargs, "fill_colors")

\* the outcomes of random.choice(fill_colors) at line 1144, as indices
Picks(kwargs, applied) ==
    IF applied /\ WritesStyle(kwargs) THEN DOMAIN kwargs.fill_colors ELSE {1}

\* the contents of the dict object passed as style when add_geojson returns;
\* applied: folium.GeoJson was constructed, which applies the style function to
\* a feature of the data (random_color, line 1144, assigns into style_dict)
StyleAfter(kwargs, applied, pick) ==
    IF applied /\ WritesStyle(kwargs)
    THEN SetItem(kwargs.style, "fillColor", kwargs.fill_colors[pick])
    ELSE kwargs.style

\* the part of the call record that tells what became of the caller's style dict
StyleEffect(kwargs, applied, pick) ==
    IF Has(kwargs, "style")
    THEN [style_after |-> StyleAfter(kwargs, applied, pick)]
    ELSE <<>>

\* Map.add_geojson; a: the arguments, net: whether the HTTP fetch succeeds
add_geojson(a, net, cap) ==
    LET out == GeojsonOutcome(a, net, children, nextId, files, dirs)
        applied == out.res.err = "none"
    IN /\ ncalls < cap
       /\ ncalls' = ncalls + 1
       /\ \E pick \in Picks(a.kwargs, applied) :
             call' = [op |-> "add_geojson", args |-> a, net |-> net] @@ out.res
                       @@ StyleEffect(a.kwargs, applied, pick)
       /\ children' = out.children
       /\ nextId' = out.nextId
       /\ UNCHANGED <<styleDefaults, rootChildren, options, fitBounds, files, dirs>>

\* keep the fields of record r whose names are in K
Restrict(r, K) == [k \in K |-> r[k]]

StyleArgs == {<<>>, [color |-> "red", weight |-> 2], [color |-> "red"]}
CallbackArgs == {None, [kind |-> "callback", f |-> "cb"]}
HoverArgs == {<<>>, [weight |-> 5]}
FillColorsArgs == {<<"c1", "c2">>}

\* the style keyword arguments of add_geojson: any subset of the four keys
GeojsonKwargs ==
    {Restrict(r, K) :
        r \in [style : StyleArgs, style_callback : CallbackArgs,
               hover_style : HoverArgs, fill_colors : FillColorsArgs],
        K \in SUBSET {"style", "style_callback", "hover_style", "fill_colors"}}

P_missing == <<"m", ".", "j", "s", "o", "n">>
P_url == <<"h", "t", "t", "p", ":", "u">>
InGeojsonArgs ==
    { Str(P_geojson), Str(P_missing), Str(P_url), Str(P_text),
      [kind |-> "dict", data |-> "D2", valid |-> TRUE],
      [kind |-> "dict", data |-> "D3", valid |-> FALSE],
      [kind |-> "list"] }

GeojsonArgs ==
    [in_geojson : InGeojsonArgs, layer_name : {"Untitled", "L"}, kwargs : GeojsonKwargs]

\* the add_geojson calls of the map's life
GeojsonArgsSmall ==
    {[in_geojson |-> Str(P_geojson), layer_name |-> "Untitled", kwargs |-> <<>>],
     [in_geojson |-> Str(P_missing), layer_name |-> "L",
      kwargs |-> [fill_colors |-> <<"c1", "c2">>]]}

(***************************************************************************)
(* add_legend                                                              *)
(*                                                                         *)
(* A colour is a str or an RGB tuple; a list is [kind |-> "list", items],  *)
(* a dict is [kind |-> "dict", items] with items a sequence of             *)
(* <<key, value>> pairs in insertion order.                                *)
(***************************************************************************)
Tuple(r, g, b) == [kind |-> "tuple", rgb |-> <<r, g, b>>]

List(items) == [kind |-> "list", items |-> items]

Dict(items) == [kind |-> "dict", items |-> items]

\* list(d.keys()), list(d.values())
Keys(d) == [i \in DOMAIN d.items |-> d.items[i][1]]
Values(d) == [i \in DOMAIN d.items |-> d.items[i][2]]

\* the two hexadecimal digits of n, 0 <= n <= 255
Hex2(n) == <<HexDigits[(n \div 16) + 1], HexDigits[(n % 16) + 1]>>

\* leafmap.common.rgb_to_hex
rgb_to_hex(rgb) == Hex2(rgb[1]) \o Hex2(rgb[2]) \o Hex2(rgb[3])

\* leafmap.common.check_color on the colours add_legend passes to it
UnspecifiedColor == Str(<<"?">>)
check_color(c) ==
    IF c.kind = "tuple" THEN Str(<<"#">> \o rgb_to_hex(c.rgb))
    ELSE IF Len(c.s) = 6 THEN Str(<<"#">> \o c.s)
    ELSE IF Len(c.s) = 7 /\ StartsWith(c.s, <<"#">>) THEN c
    ELSE UnspecifiedColor

\* leafmap.legends.builtin_legends
builtin_legends ==
    [B1 |-> Dict(<<<<"Water", Str(<<"4", "6", "6", "b", "9", "f">>)>>,
                   <<"Forest", Str(<<"1", "c", "5", "f", "2", "c">>)>>>>),
     B2 |-> Dict(<<<<"Ice", Tuple(255, 255, 255)>>>>)]

DefaultLabels == <<"One", "Two", "Three", "Four", "etc">>

DefaultColors ==
    <<Str(<<"#", "8", "D", "D", "3", "C", "7">>), Str(<<"#", "F", "F", "F", "F", "B", "3">>), Str(<<"#", "B", "E", "B", "A", "D", "A">>), Str(<<"#", "F", "B", "8", "0", "7", "2">>), Str(<<"#", "8", "0", "B", "1", "D", "3">>)>>

\* all(isinstance(item, tuple) for item in items)
AllTuples(items) == \A i \in DOMAIN items : items[i].kind = "tuple"

\* all(isinstance(item, str) for item in items)
AllStrs(items) == \A i \in DOMAIN items : items[i].kind = "str"

\* all((item.startswith("#") and len(item) == 7) for item in items): "true", "false",
\* or "AttributeError" when the scan reaches a tuple before an item that fails the test
AllHash7(items) ==
    LET stop == {i \in DOMAIN items :
                    \/ items[i].kind # "str"
                    \/ ~(StartsWith(items[i].s, <<"#">>) /\ Len(items[i].s) = 7)}
        first == CHOOSE i \in stop : \A j \in stop : i <= j
    IN IF stop = {} THEN "true"
       ELSE IF items[first].kind # "str" THEN "AttributeError"
       ELSE "false"

\* len(item) of a colour
ItemLen(c) == IF c.kind = "tuple" THEN Len(c.rgb) ELSE Len(c.s)

\* all((len(item) == 6) for item in items)
AllLen6(items) == \A i \in DOMAIN items : ItemLen(items[i]) = 6

\* "#" + colour
Prefixed(c) == Str(<<"#">> \o c.s)

\* ["#" + rgb_to_hex(x) for x in items]
TuplesToHex(items) == [i \in DOMAIN items |-> Str(<<"#">> \o rgb_to_hex(items[i].rgb))]

\* lines 902-906: the labels, or the exception
LegendLabels(labels) ==
    IF labels # None
    THEN IF labels.kind # "list" THEN [err |-> "ValueError"]
         ELSE [err |-> "none", v |-> labels.items]
    ELSE [err |-> "none", v |-> DefaultLabels]

\* lines 908-923: the colours, or the exception
LegendColors(colors) ==
    IF colors # None
    THEN IF colors.kind # "list" THEN [err |-> "ValueError"]
         ELSE IF AllTuples(colors.items) THEN [err |-> "none", v |-> TuplesToHex(colors.items)]
         ELSE IF AllHash7(colors.items) = "AttributeError" THEN [err |-> "AttributeError"]
         ELSE IF AllHash7(colors.items) = "true" THEN [err |-> "none", v |-> colors.items]
         ELSE IF AllLen6(colors.items) THEN [err |-> "none", v |-> colors.items]
         ELSE [err |-> "ValueError"]
    ELSE [err |-> "none", v |-> DefaultColors]

\* lines 952-961: the labels and colours taken from a legend dict
FromLegendDict(d) ==
    [labels |-> Keys(d),
     colors |-> IF AllTuples(Values(d)) THEN TuplesToHex(Values(d))
                ELSE IF AllStrs(Values(d))
                     THEN [i \in DOMAIN d.items |-> Prefixed(Values(d)[i])]
                     ELSE Values(d)]

\* a resolution in which the caller's legend_dict wins over the builtin legend
EffectiveLegendDict_callerFirst(legend_dict, builtin_legend) ==
    IF builtin_legend # None
    THEN IF builtin_legend.s \notin DOMAIN builtin_legends
         THEN [err |-> "ValueError"]
         ELSE [err |-> "none",
               v |-> IF legend_dict # None THEN legend_dict
                     ELSE builtin_legends[builtin_legend.s]]
    ELSE [err |-> "none", v |-> legend_dict]

\* legend_dict after lines 928-946, or the exception
EffectiveLegendDict(legend_dict, builtin_legend) ==
    IF builtin_legend # None
    THEN IF builtin_legend.s \notin DOMAIN builtin_legends
         THEN [err |-> "ValueError"]
         ELSE [err |-> "none", v |-> builtin_legends[builtin_legend.s]]
    ELSE [err |-> "none", v |-> legend_dict]

\* lines 902-961: the final labels and colours, or the exception
ResolveLegend(a) ==
    LET ls == LegendLabels(a.labels)
        colrs == LegendColors(a.colors)
        d == EffectiveLegendDict(a.legend_dict, a.builtin_legend)
    IN IF ls.err # "none" THEN [err |-> ls.err]
       ELSE IF colrs.err # "none" THEN [err |-> colrs.err]
       ELSE IF Len(ls.v) # Len(colrs.v) THEN [err |-> "ValueError"]
       ELSE IF d.err # "none" THEN [err |-> d.err]
       ELSE IF d.v # None
            THEN IF d.v.kind # "dict" THEN [err |-> "ValueError"]
                 ELSE [err |-> "none"] @@ FromLegendDict(d.v)
            ELSE [err |-> "none", labels |-> ls.v, colors |-> colrs.v]

\* leafmap/data/template/legend.txt: line `index` of the template (from 0)
NumTemplateLines == 44
TemplateLine(index) ==
    IF index = 36
    THEN [index |-> index, text |-> <<"<div class='legend-title'>", "Legend", "</div>">>]
    ELSE [index |-> index, text |-> <<"...">>]

\* lines[index].replace("Legend", title)
ReplaceLegend(line, title) ==
    [line EXCEPT !.text = [i \in DOMAIN line.text |->
                              IF line.text[i] = "Legend" THEN title ELSE line.text[i]]]

\* an item rendered without check_color
LegendItem_unchecked(color, opacity, label) ==
    [li |-> [background |-> color, opacity |-> opacity, label |-> label]]

\* the <li> line of line 977
LegendItem(color, opacity, label) ==
    [li |-> [background |-> check_color(color), opacity |-> opacity, label |-> label]]

\* lines 963-982: the content rendered from the template
RECURSIVE LegendContent(_, _, _, _, _)
LegendContent(index, title, labels, colors, opacity) ==
    IF index >= NumTemplateLines THEN <<>>
    ELSE (IF index < 36 THEN <<TemplateLine(index)>>
          ELSE IF index = 36 THEN <<ReplaceLegend(TemplateLine(index), title)>>
          ELSE IF index < 39 THEN <<TemplateLine(index)>>
          ELSE IF index = 39
               THEN [i \in DOMAIN colors |-> LegendItem(colors[i], opacity, labels[i])]
          ELSE IF index > 41 THEN <<TemplateLine(index)>>
          ELSE <<>>)
         \o LegendContent(index + 1, title, labels, colors, opacity)

\* Map.add_legend
add_legend(a, cap) ==
    LET r == ResolveLegend(a)
    IN /\ ncalls < cap
       /\ ncalls' = ncalls + 1
       /\ UNCHANGED <<styleDefaults, children, options, fitBounds, files, dirs>>
       /\ IF r.err # "none"
          THEN /\ call' = [op |-> "add_legend", args |-> a, err |-> r.err]
               /\ UNCHANGED <<rootChildren, nextId>>
          ELSE /\ rootChildren' =
                      Append(rootChildren,
                             Element(S_macro_element, nextId,
                                     [kind |-> "legend",
                                      template |-> LegendContent(0, a.title, r.labels,
                                                                 r.colors, a.opacity)]))
               /\ nextId' = nextId + 1
               /\ call' = [op |-> "add_legend", args |-> a, err |-> "none",
                           labels |-> r.labels, colors |-> r.colors]

\* colours: 6-character strings, 7-character "#" strings, a name, RGB tuples
C_6a == Str(<<"f", "f", "0", "0", "0", "0">>)
C_6b == Str(<<"0", "0", "F", "F", "7", "f">>)
C_7a == Str(<<"#", "f", "f", "0", "0", "0", "0">>)
C_7b == Str(<<"#", "0", "0", "0", "0", "F", "F">>)
C_name == Str(<<"r", "e", "d">>)
C_red == Tuple(255, 0, 0)
C_teal == Tuple(0, 128, 128)

LabelsArgs ==
    {None, Str(<<"a">>), List(<<>>), List(<<"a">>), List(<<"b", "a">>)}

ColorsArgs ==
    {None, Str(<<"f", "f", "0", "0", "0", "0">>), List(<<>>),
     List(<<C_6a>>), List(<<C_name>>),
     List(<<C_6a, C_6b>>), List(<<C_7a, C_7b>>), List(<<C_red, C_teal>>),
     List(<<C_6a, C_7a>>), List(<<C_7a, C_red>>), List(<<C_6a, C_red>>)}

LegendDictArgs ==
    {None, List(<<>>),
     Dict(<<<<"x", C_7a>>>>), Dict(<<<<"x", C_red>>>>),
     Dict(<<<<"x", C_6a>>, <<"y", C_teal>>>>), Dict(<<<<"y", C_6b>>, <<"x", C_6a>>>>)}

BuiltinArgs == {None, Str("B1"), Str("nope")}

LegendArgs ==
    [title : {"Legend", "T"}, colors : ColorsArgs, labels : LabelsArgs,
     legend_dict : LegendDictArgs, builtin_legend : BuiltinArgs, opacity : {"1.0"}]

\* the add_legend calls of the map's life
LegendArgsSmall ==
    {[title |-> "T", colors |-> None, labels |-> None, legend_dict |-> None,
      builtin_legend |-> None, opacity |-> "1.0"],
     [title |-> "T", colors |-> List(<<C_6a>>), labels |-> None, legend_dict |-> None,
      builtin_legend |-> None, opacity |-> "1.0"]}

(***************************************************************************)
(* Operations the folium backend does not support: the nineteen Map        *)
(* methods of lines 1445-1610 and the module functions linked_maps and     *)
(* split_map.  Each body is a single raise.                                *)
(***************************************************************************)
MapStubs ==
    {"add_colormap", "add_marker_cluster", "add_minimap", "add_point_layer",
     "add_raster", "add_time_slider", "add_vector_tile_layer", "add_xy_data",
     "basemap_demo", "find_layer", "find_layer_index", "get_layer_names",
     "get_scale", "image_overlay", "layer_opacity", "split_map", "to_image",
     "toolbar_reset", "video_overlay"}

ModuleStubs == {"linked_maps", "module.split_map"}

Stubs == MapStubs \cup ModuleStubs

\* The message every stub raises, word by word.
NotSupportedMessage ==
    <<"The", "folium", "plotting", "backend", "does", "not", "support",
      "this", "function.", "Use", "the", "ipyleaflet", "plotting", "backend",
      "instead.">>

Raised_silent(name) == [op |-> name, err |-> "none", message |-> <<>>]

\* raise NotImplementedError(...)
Raised(name) ==
    [op |-> name, err |-> "NotImplementedError", message |-> NotSupportedMessage]

\* A call of one of the unsupported operations; the arguments are never read.
unsupported(name, cap) ==
    /\ ncalls < cap
    /\ ncalls' = ncalls + 1
    /\ call' = Raised(name)
    /\ UNCHANGED <<styleDefaults, children, rootChildren, options, fitBounds, files, dirs, nextId>>

(***************************************************************************)
(* The specification of the map's life: construction, then any calls.      *)
(***************************************************************************)
Next ==
    \/ add_layer_control(MaxCalls)
    \/ repr_mimebundle(MaxCalls)
    \/ \E outfile \in Outfiles : to_html(outfile, MaxCalls)
    \/ \E ok \in BOOLEAN : add_tile_layer("XYZ", ok, MaxCalls)
    \/ \E a \in GeojsonArgsSmall, net \in BOOLEAN : add_geojson(a, net, MaxCalls)
    \/ \E a \in LegendArgsSmall : add_legend(a, MaxCalls)
    \/ \E name \in Stubs : unsupported(name, MaxCalls)

Spec == Init /\ [][Next]_vars

(***************************************************************************)
(* The specification of add_geojson: a default Map, then add_geojson calls *)
(* with every combination of its arguments.                                *)
(***************************************************************************)
\* the largest number of add_geojson calls
MaxGeojsonCalls == 1

InitDefault == MapInit(<<>>)

NextGeojson ==
    \E a \in GeojsonArgs :
        \E net \in (IF a.in_geojson.kind = "str" /\ StartsWith(a.in_geojson.s, S_http)
                    THEN BOOLEAN ELSE {TRUE}) :
            add_geojson(a, net, MaxGeojsonCalls)

SpecGeojson == InitDefault /\ [][NextGeojson]_vars

(***************************************************************************)
(* The specification of add_legend: a default Map, then add_legend calls   *)
(* with every combination of its arguments.                                *)
(***************************************************************************)
\* the largest number of add_legend calls
MaxLegendCalls == 1

NextLegend == \E a \in LegendArgs : add_legend(a, MaxLegendCalls)

SpecLegend == InitDefault /\ [][NextLegend]_vars

(***************************************************************************)
(* set_center, zoom_to_bounds, zoom_to_gdf                                 *)
(***************************************************************************)
\* folium's fit_bounds: the view is fitted once more, with these arguments
FitBounds(fb, fit) == fit @@ [n |-> fb.n + 1]

\* the arguments of line 188: self.fit_bounds([[lat, lon], [lat, lon]], max_zoom=zoom)
SetCenterFit(lon, lat, zoom) ==
    [bounds |-> <<<<lat, lon>>, <<lat, lon>>>>, max_zoom |-> zoom]

\* a fit to the bounds in the order they are given
ZoomToBoundsFit_unswapped(bounds) ==
    [bounds |-> <<<<bounds[1], bounds[2]>>, <<bounds[3], bounds[4]>>>>]

\* the arguments of line 197: self.fit_bounds([[bounds[1], bounds[0]], [bounds[3], bounds[2]]])
ZoomToBoundsFit(bounds) ==
    [bounds |-> <<<<bounds[2], bounds[1]>>, <<bounds[4], bounds[3]>>>>]

Min(S) == CHOOSE x \in S : \A y \in S : x <= y
Max(S) == CHOOSE x \in S : \A y \in S : x >= y

\* a GeoDataFrame: the [minx, miny, maxx, maxy] boxes of its features
Gdf(boxes) == [kind |-> "gdf", bounds |-> boxes]

\* gdf.total_bounds
TotalBounds(gdf) ==
    <<Min({gdf.bounds[i][1] : i \in DOMAIN gdf.bounds}),
      Min({gdf.bounds[i][2] : i \in DOMAIN gdf.bounds}),
      Max({gdf.bounds[i][3] : i \in DOMAIN gdf.bounds}),
      Max({gdf.bounds[i][4] : i \in DOMAIN gdf.bounds})>>

\* Map.set_center
set_center(lon, lat, zoom, cap) ==
    /\ ncalls < cap
    /\ ncalls' = ncalls + 1
    /\ fitBounds' = FitBounds(fitBounds, SetCenterFit(lon, lat, zoom))
    /\ call' = [op |-> "set_center", lon |-> lon, lat |-> lat, zoom |-> zoom, err |-> "none"]
    /\ UNCHANGED <<styleDefaults, children, rootChildren, options, files, dirs, nextId>>

\* Map.zoom_to_bounds
zoom_to_bounds(bounds, cap) ==
    /\ ncalls < cap
    /\ ncalls' = ncalls + 1
    /\ fitBounds' = FitBounds(fitBounds, ZoomToBoundsFit(bounds))
    /\ call' = [op |-> "zoom_to_bounds", bounds |-> bounds, err |-> "none"]
    /\ UNCHANGED <<styleDefaults, children, rootChildren, options, files, dirs, nextId>>

\* Map.zoom_to_gdf
zoom_to_gdf(gdf, cap) ==
    /\ ncalls < cap
    /\ ncalls' = ncalls + 1
    /\ fitBounds' = FitBounds(fitBounds, ZoomToBoundsFit(TotalBounds(gdf)))
    /\ call' = [op |-> "zoom_to_gdf", gdf |-> gdf, err |-> "none"]
    /\ UNCHANGED <<styleDefaults, children, rootChildren, options, files, dirs, nextId>>

LonArgs == {-100, 20}
LatArgs == {40, 10}
ZoomArgs == {6, 10}
BoundsArgs == {<<1, 2, 3, 4>>, <<-5, 0, 7, 2>>}
GdfArgs == {Gdf(<<<<1, 2, 3, 4>>>>), Gdf(<<<<1, 2, 3, 4>>, <<-5, 0, 2, 8>>>>)}

(***************************************************************************)
(* The specification of construction and of the view: a Map constructed    *)
(* with any of the options of its constructor, then calls that fit the     *)
(* view.                                                                   *)
(***************************************************************************)
\* the largest number of view calls
MaxViewCalls == 2

\* center, location, zoom, zoom_start: any subset of the four keys
ViewKwargs ==
    {Restrict(r, K) :
        r \in [center : {<<10, 20>>}, location : {<<-30, 50>>}, zoom : {7}, zoom_start : {9}],
        K \in SUBSET {"center", "location", "zoom", "zoom_start"}}

\* the boolean gates: any subset of the six keys, each true or false
FlagKwargs ==
    {Restrict(r, K) :
        r \in [fullscreen_control : BOOLEAN, draw_control : BOOLEAN,
               measure_control : BOOLEAN, latlon_control : BOOLEAN,
               minimap_control : BOOLEAN, layers_control : BOOLEAN],
        K \in SUBSET {"fullscreen_control", "draw_control", "measure_control",
                      "latlon_control", "minimap_control", "layers_control"}}

GoogleMapArgs ==
    {None,
     Str(<<"r", "o", "a", "d", "m", "a", "p">>), Str(S_ROADMAP),
     Str(<<"h", "y", "b", "r", "i", "d">>), Str(S_HYBRID),
     Str(<<"T", "e", "r", "r", "a", "i", "n">>), Str(S_TERRAIN),
     Str(<<"s", "a", "t", "e", "l", "l", "i", "t", "e">>), Str(S_SATELLITE),
     Str(<<"O", "S", "M">>), Str(<<>>)}

\* google_map, and the tiles option of folium.Map: absent or None
GoogleKwargs ==
    {Restrict(r, K) :
        r \in [google_map : GoogleMapArgs, tiles : {None}],
        K \in SUBSET {"google_map", "tiles"}}

\* the keyword arguments of the constructor: the three groups of options are read by
\* separate statements of __init__
KwargsAll == ViewKwargs \cup FlagKwargs \cup GoogleKwargs

InitAll == \E kwargs \in KwargsAll : MapInit(kwargs)

NextView ==
    \/ \E lon \in LonArgs, lat \in LatArgs, zoom \in ZoomArgs :
           set_center(lon, lat, zoom, MaxViewCalls)
    \/ \E bounds \in BoundsArgs : zoom_to_bounds(bounds, MaxViewCalls)
    \/ \E gdf \in GdfArgs : zoom_to_gdf(gdf, MaxViewCalls)

SpecView == InitAll /\ [][NextView]_vars

(***************************************************************************)
(* add_shp, add_vector                                                     *)
(*                                                                         *)
(* download_from_url, shp_to_geojson and vector_to_geojson of              *)
(* leafmap.common are collaborators: the first fetches a zip archive and   *)
(* extracts it into the cache directory, the other two convert a file to   *)
(* GeoJSON; each can fail with its own exception.  A method that calls     *)
(* another method of the Map has as outcomes the states that method can    *)
(* leave, so an outcome is a record of the exception raised (res), the     *)
(* children, next id, files and directories after the call, and the       *)
(* shapefile that was converted (used).                                    *)
(***************************************************************************)
S_zip == <<".", "z", "i", "p">>
S_shp == <<".", "s", "h", "p">>
S_json == <<".", "j", "s", "o", "n">>
S_geojson == <<".", "g", "e", "o", "j", "s", "o", "n">>

\* an extension compared as it is written
Lower_identity(s) == s

\* str.lower
Lower(s) == [i \in 1..Len(s) |->
                IF \E j \in DOMAIN UpperCase : UpperCase[j] = s[i]
                THEN LowerCase[CHOOSE j \in DOMAIN UpperCase : UpperCase[j] = s[i]]
                ELSE s[i]]

\* os.path.splitext(p)[1]: from the last dot of the last component, unless only dots
\* precede it there
SplitExt(p) ==
    LET sep == Max({0} \cup {i \in 1..Len(p) : p[i] = "/"})
        dot == Max({0} \cup {i \in 1..Len(p) : p[i] = "."})
    IN IF dot > sep /\ \E k \in (sep + 1)..(dot - 1) : p[k] # "."
       THEN SubSeq(p, dot, Len(p))
       ELSE <<>>

\* os.path.abspath("./cache/shp")
CacheDir == Cwd \o <<"/", "c", "a", "c", "h", "e", "/", "s", "h", "p">>

\* os.path.join(d, name)
Join(d, name) == d \o <<"/">> \o name

U_A == <<"h", "t", "t", "p", ":", "A", ".", "z", "i", "p">>
U_B == <<"h", "t", "t", "p", ":", "B", ".", "z", "i", "p">>
U_E == <<"h", "t", "t", "p", ":", "E", ".", "z", "i", "p">>

\* the members of the remote archives: A and B hold a shapefile at their top level, E
\* holds a text file there and a shapefile in a subdirectory
Archive(url) ==
    IF url = U_A THEN {[name |-> <<"a", ".", "s", "h", "p">>, file |-> [kind |-> "shp", data |-> "A"]]}
    ELSE IF url = U_B
    THEN {[name |-> <<"b", ".", "s", "h", "p">>, file |-> [kind |-> "shp", data |-> "B"]]}
    ELSE {[name |-> <<"r", ".", "t", "x", "t">>, file |-> [kind |-> "text"]],
          [name |-> <<"s", "/", "e", ".", "s", "h", "p">>, file |-> [kind |-> "shp", data |-> "E"]]}

\* the files after download_from_url(url, out_dir): the members of the archive are
\* extracted into out_dir, over the files of the same name
Extracted(fs, url, out_dir) ==
    LET new == {Join(out_dir, m.name) : m \in Archive(url)}
    IN [q \in DOMAIN fs \cup new |->
           IF q \in new THEN (CHOOSE m \in Archive(url) : Join(out_dir, m.name) = q).file
           ELSE fs[q]]

\* the directories after the extraction
ExtractedDirs(ds, url, out_dir) == ds \cup {DirName(Join(out_dir, m.name)) : m \in Archive(url)}

\* glob.glob(os.path.join(d, "*.shp")): the entries of d with the suffix
GlobShp(fs, d) == {q \in DOMAIN fs : DirName(q) = d /\ EndsWith(q, S_shp)}

\* shp_to_geojson(in_shp) and then self.add_geojson(data, layer_name=layer_name, **kwargs)
ConvertAndAdd(path, layer_name, kwargs, conv, chs, id, fs, ds) ==
    IF ~conv \/ fs[path].kind # "shp"
    THEN [res |-> [err |-> "Exception", cause |-> "collaborator"],
          children |-> chs, nextId |-> id, files |-> fs, dirs |-> ds, used |-> Str(path)]
    ELSE GeojsonOutcome([in_geojson |-> [kind |-> "dict", data |-> fs[path].data,
                                         valid |-> TRUE],
                         layer_name |-> layer_name, kwargs |-> kwargs],
                        TRUE, chs, id, fs, ds)
         @@ [files |-> fs, dirs |-> ds, used |-> Str(path)]

\* the outcomes of add_shp; dl: whether the download succeeds, conv: whether the
\* conversion of the shapefile succeeds.  files[0] of line 1055 is any of the
\* shapefiles in the cache directory: glob returns them in arbitrary order.
ShpOutcomes(in_shp, layer_name, kwargs, dl, conv, chs, id, fs, ds) ==
    IF StartsWith(in_shp, S_http) /\ EndsWith(in_shp, S_zip)
    THEN LET ds1 == ds \cup MakeDirs(CacheDir)
         IN IF ~dl
            THEN {[res |-> [err |-> "Exception", cause |-> "collaborator"],
                   children |-> chs, nextId |-> id, files |-> fs, dirs |-> ds1, used |-> None]}
            ELSE LET fs2 == Extracted(fs, in_shp, CacheDir)
                     ds2 == ExtractedDirs(ds1, in_shp, CacheDir)
                     found == GlobShp(fs2, CacheDir)
                 IN IF found = {}
                    THEN {[res |-> [err |-> "FileNotFoundError"],
                           children |-> chs, nextId |-> id, files |-> fs2, dirs |-> ds2, used |-> None]}
                    ELSE {ConvertAndAdd(f, layer_name, kwargs, conv, chs, id, fs2, ds2) :
                             f \in found}
    ELSE LET path == AbsPath(in_shp)
         IN IF ~(path \in ds \/ path \in DOMAIN fs)
            THEN {[res |-> [err |-> "FileNotFoundError"],
                   children |-> chs, nextId |-> id, files |-> fs, dirs |-> ds, used |-> None]}
            ELSE {ConvertAndAdd(path, layer_name, kwargs, conv, chs, id, fs, ds)}

\* Map.add_shp
add_shp(a, dl, conv, cap) ==
    /\ ncalls < cap
    /\ ncalls' = ncalls + 1
    /\ \E out \in ShpOutcomes(a.in_shp, a.layer_name, a.kwargs, dl, conv,
                              children, nextId, files, dirs) :
           /\ call' = [op |-> "add_shp", args |-> a, dl |-> dl, used |-> out.used] @@ out.res
           /\ children' = out.children
           /\ nextId' = out.nextId
           /\ files' = out.files
           /\ dirs' = out.dirs
    /\ UNCHANGED <<styleDefaults, rootChildren, options, fitBounds>>

\* the outcomes of add_vector, each with its route: the calls add_vector made, in order.
\* net: whether an HTTP fetch of add_geojson succeeds, dl: whether a download of
\* add_shp succeeds, conv: whether a conversion to GeoJSON succeeds
VectorOutcomes(a, net, dl, conv, chs, id, fs, ds) ==
    LET filename == IF ~StartsWith(a.filename, S_http) THEN AbsPath(a.filename)
                    ELSE a.filename
        ext == Lower(SplitExt(filename))
    IN IF ext = S_shp
       THEN {out @@ [route |-> <<[fn |-> "add_shp", in_shp |-> filename,
                                  layer_name |-> a.layer_name, kwargs |-> a.kwargs]>>] :
                out \in ShpOutcomes(filename, a.layer_name, a.kwargs, dl, conv,
                                    chs, id, fs, ds)}
       ELSE IF ext \in {S_json, S_geojson}
       THEN {GeojsonOutcome([in_geojson |-> Str(filename), layer_name |-> a.layer_name,
                             kwargs |-> a.kwargs], net, chs, id, fs, ds)
             @@ [files |-> fs, dirs |-> ds, used |-> None,
                 route |-> <<[fn |-> "add_geojson", in_geojson |-> Str(filename),
                              layer_name |-> a.layer_name, kwargs |-> a.kwargs]>>]}
       ELSE LET convert == [fn |-> "vector_to_geojson", filename |-> filename,
                            bbox |-> a.bbox, mask |-> a.mask, rows |-> a.rows,
                            epsg |-> "4326", kwargs |-> a.kwargs]
                geojson == [kind |-> "dict", data |-> "vector", valid |-> TRUE]
            IN IF ~conv
               THEN {[res |-> [err |-> "Exception", cause |-> "collaborator"],
                      children |-> chs, nextId |-> id, files |-> fs, dirs |-> ds,
                      used |-> None, route |-> <<convert>>]}
               ELSE {GeojsonOutcome([in_geojson |-> geojson, layer_name |-> a.layer_name,
                                     kwargs |-> a.kwargs], net, chs, id, fs, ds)
                     @@ [files |-> fs, dirs |-> ds, used |-> None,
                         route |-> <<convert,
                                     [fn |-> "add_geojson", in_geojson |-> geojson,
                                      layer_name |-> a.layer_name, kwargs |-> a.kwargs]>>]}

\* Map.add_vector
add_vector(a, net, dl, conv, cap) ==
    /\ ncalls < cap
    /\ ncalls' = ncalls + 1
    /\ \E out \in VectorOutcomes(a, net, dl, conv, children, nextId, files, dirs) :
           /\ call' = [op |-> "add_vector", args |-> a, route |-> out.route] @@ out.res
           /\ children' = out.children
           /\ nextId' = out.nextId
           /\ files' = out.files
           /\ dirs' = out.dirs
    /\ UNCHANGED <<styleDefaults, rootChildren, options, fitBounds>>

P_noshp == <<"n", ".", "s", "h", "p">>
U_shp == <<"h", "t", "t", "p", ":", "x", ".", "s", "h", "p">>

ShpArgs ==
    [in_shp : {P_shp, P_noshp, U_A, U_B, U_E, U_shp}, layer_name : {"Untitled"},
     kwargs : {<<>>}]

\* the filenames of add_vector: every extension of the dispatch in both cases, a name
\* with no extension, a name that is only an extension, and URLs
VectorFiles ==
    {P_shp, <<"V", ".", "S", "H", "P">>, P_geojson, <<"m", ".", "J", "s", "o", "n">>,
     <<"m", ".", "G", "e", "o", "J", "S", "O", "N">>, <<"d", ".", "g", "p", "k", "g">>,
     <<"j", "s", "o", "n">>, S_shp,
     <<"h", "t", "t", "p", ":", "u", ".", "j", "s", "o", "n">>, U_A}

\* bbox, mask and rows: bbox and mask are not used together
VectorFilters ==
    {[bbox |-> None, mask |-> None, rows |-> None],
     [bbox |-> [kind |-> "bbox", v |-> <<0, 0, 1, 1>>], mask |-> None,
      rows |-> [kind |-> "int", v |-> 5]],
     [bbox |-> None, mask |-> [kind |-> "mask"], rows |-> None]}

VectorArgs ==
    {[filename |-> f, layer_name |-> "L", bbox |-> x.bbox, mask |-> x.mask,
      rows |-> x.rows, kwargs |-> k] :
        f \in VectorFiles, x \in VectorFilters,
        k \in {<<>>, [style |-> [color |-> "red", weight |-> 2]]}}

(***************************************************************************)
(* The specification of add_shp and add_vector: a default Map, then        *)
(* add_shp and add_vector calls with any outcome of their collaborators.   *)
(***************************************************************************)
\* the largest number of add_shp and add_vector calls
MaxVectorCalls == 2

NextVector ==
    \/ \E a \in ShpArgs, dl \in BOOLEAN, conv \in BOOLEAN :
           add_shp(a, dl, conv, MaxVectorCalls)
    \/ \E a \in VectorArgs, net \in BOOLEAN, dl \in BOOLEAN, conv \in BOOLEAN :
           add_vector(a, net, dl, conv, MaxVectorCalls)

SpecVector == InitDefault /\ [][NextVector]_vars

(***************************************************************************)
(* add_cog_layer, add_stac_layer, add_cog_mosaic                           *)
(*                                                                         *)
(* cog_tile, cog_center, stac_tile, stac_center, cog_mosaic, cog_bounds,   *)
(* coords_to_geojson and get_center of leafmap.common are collaborators    *)
(* that query a tile service.  A lookup that fails raises the              *)
(* collaborator's own exception (err = "collaborator"), except cog_bounds,  *)
(* which returns None for a COG whose bounds cannot be computed.  The call *)
(* record holds the steps of the method in the order they were made, each  *)
(* with its outcome.                                                       *)
(***************************************************************************)
\* the zoom of line 684 and of line 867
LayerZoom == 10

\* the zoom of line 751
MosaicZoom == 6

\* the tile service: the bounds [minx, miny, maxx, maxy] of each COG or STAC item
CogBounds(url) == IF url = "c1" THEN <<0, 0, 4, 2>> ELSE <<10, 20, 14, 26>>

\* cog_center, stac_center: the (lon, lat) center of the bounds
CogCenter(url) ==
    <<(CogBounds(url)[1] + CogBounds(url)[3]) \div 2, (CogBounds(url)[2] + CogBounds(url)[4]) \div 2>>

\* folium.raster_layers.TileLayer(tiles=url, name=name, attr=attribution, overlay=overlay,
\* control=control, show=shown, opacity=opacity)
TileLayerInfo(url, name, attribution, overlay, control, shown, opacity) ==
    [kind |-> "tile", tiles |-> url, name |-> name, attr |-> attribution,
     overlay |-> overlay, control |-> control, show |-> shown, opacity |-> opacity]

Step(fn, ok) == [fn |-> fn, ok |-> ok]

\* the steps of a sequence that were made, up to the first that failed
RECURSIVE Made(_)
Made(steps) ==
    IF steps = <<>> THEN <<>>
    ELSE IF ~steps[1].ok THEN <<steps[1]>>
    ELSE <<steps[1]>> \o Made(Tail(steps))

\* a method that attaches the tile layer before it looks the center up
TileServiceLayer_attachFirst(tileFn, centerFn, a, tileOk, centerOk, layerOk, chs, id, fb) ==
    LET steps == Made(<<Step(tileFn, tileOk), Step("add_tile_layer", layerOk),
                        Step(centerFn, centerOk), Step("set_center", TRUE)>>)
        center == CogCenter(a.url)
        attached == AddTo(chs, Element(S_tile_layer, id,
                                       TileLayerInfo(<<"tiles", a.url>>, a.name, a.attribution,
                                                     TRUE, TRUE, a.shown, a.opacity)))
    IN IF ~tileOk
       THEN [res |-> [err |-> "collaborator"], steps |-> steps,
             children |-> chs, nextId |-> id, fitBounds |-> fb]
       ELSE IF ~layerOk
       THEN [res |-> [err |-> "Exception", cause |-> "collaborator"], steps |-> steps,
             children |-> chs, nextId |-> id, fitBounds |-> fb]
       ELSE IF ~centerOk
       THEN [res |-> [err |-> "collaborator"], steps |-> steps,
             children |-> attached, nextId |-> id + 1, fitBounds |-> fb]
       ELSE [res |-> [err |-> "none"], steps |-> steps,
             children |-> attached, nextId |-> id + 1,
             fitBounds |-> FitBounds(fb, SetCenterFit(center[1], center[2], LayerZoom))]

\* lines 675-684 and 858-867: the tile URL and the center are looked up, the tile layer
\* is added with add_tile_layer (overlay and control at their defaults), and the view
\* is centered with set_center(lon=center[0], lat=center[1], zoom=10).
\* tileOk, centerOk: whether the lookups succeed; layerOk: whether the TileLayer
\* constructor accepts its arguments
TileServiceLayer(tileFn, centerFn, a, tileOk, centerOk, layerOk, chs, id, fb) ==
    LET steps == Made(<<Step(tileFn, tileOk), Step(centerFn, centerOk),
                        Step("add_tile_layer", layerOk), Step("set_center", TRUE)>>)
        center == CogCenter(a.url)
        unchanged == [steps |-> steps, children |-> chs, nextId |-> id, fitBounds |-> fb]
    IN IF ~tileOk \/ ~centerOk
       THEN unchanged @@ [res |-> [err |-> "collaborator"]]
       ELSE IF ~layerOk
       THEN unchanged @@ [res |-> [err |-> "Exception", cause |-> "collaborator"]]
       ELSE [res |-> [err |-> "none"], steps |-> steps,
             children |-> AddTo(chs, Element(S_tile_layer, id,
                                   TileLayerInfo(<<"tiles", a.url>>, a.name, a.attribution,
                                                 TRUE, TRUE, a.shown, a.opacity))),
             nextId |-> id + 1,
             fitBounds |-> FitBounds(fb, SetCenterFit(center[1], center[2], LayerZoom))]

\* Map.add_cog_layer
add_cog_layer(a, tileOk, centerOk, layerOk, cap) ==
    LET out == TileServiceLayer("cog_tile", "cog_center", a, tileOk, centerOk, layerOk,
                                children, nextId, fitBounds)
    IN /\ ncalls < cap
       /\ ncalls' = ncalls + 1
       /\ call' = [op |-> "add_cog_layer", args |-> a, steps |-> out.steps] @@ out.res
       /\ children' = out.children
       /\ nextId' = out.nextId
       /\ fitBounds' = out.fitBounds
       /\ UNCHANGED <<styleDefaults, rootChildren, options, files, dirs>>

\* Map.add_stac_layer
add_stac_layer(a, tileOk, centerOk, layerOk, cap) ==
    LET out == TileServiceLayer("stac_tile", "stac_center", a, tileOk, centerOk, layerOk,
                                children, nextId, fitBounds)
    IN /\ ncalls < cap
       /\ ncalls' = ncalls + 1
       /\ call' = [op |-> "add_stac_layer", args |-> a, steps |-> out.steps] @@ out.res
       /\ children' = out.children
       /\ nextId' = out.nextId
       /\ fitBounds' = out.fitBounds
       /\ UNCHANGED <<styleDefaults, rootChildren, options, files, dirs>>

CogLayerArgs ==
    [url : {"c1", "c2"}, name : {"Untitled"}, attribution : {"."}, opacity : {"1.0"},
     shown : {TRUE}]

StacLayerArgs ==
    [url : {"c1", "c2"}, bands : {None}, name : {"S"}, attribution : {"."},
     opacity : {"0.5"}, shown : {FALSE}]

\* str.replace(" ", "_")
ReplaceSpaces(s) == [i \in DOMAIN s |-> IF s[i] = " " THEN "_" ELSE s[i]]

\* the bounds of the links whose bounds lookup succeeds, in the order of the links
RECURSIVE Coords(_, _)
Coords(links, known) ==
    IF links = <<>> THEN <<>>
    ELSE (IF links[1] \in known THEN <<CogBounds(links[1])>> ELSE <<>>)
         \o Coords(Tail(links), known)

\* coords_to_geojson: a feature collection with one bounding polygon for each box
FootprintCollection(coords) == [kind |-> "FeatureCollection", features |-> coords]

\* the value get_center gives for a collection with no feature, when it gives one
EmptyCenter == <<0, 0>>

\* get_center(fc): the (lon, lat) center of the bounds of the collection
GetCenter(fc) ==
    IF fc.features = <<>> THEN EmptyCenter
    ELSE LET b == TotalBounds([bounds |-> fc.features])
         IN <<(b[1] + b[3]) \div 2, (b[2] + b[4]) \div 2>>

\* a method that detaches what it attached when a later step fails
OnFailure_restored(before, attached) == before

\* lines 724-751 have no try statement: an exception leaves the method with the
\* children attached so far
OnFailure(before, attached) == attached

\* the outcome of add_cog_mosaic.  mosaicOk, layerOk, centerOk: whether cog_mosaic, the
\* TileLayer constructor and cog_center succeed; known: the links whose bounds lookup
\* succeeds; emptyOk: whether get_center gives a value for a collection with no feature
MosaicOutcome(a, mosaicOk, layerOk, known, centerOk, emptyOk, chs, id, fb) ==
    LET layername == ReplaceSpaces(a.name)
        \* line 724: add_tile_layer(tile, name, attribution, opacity, shown) binds opacity
        \* to overlay and shown to control
        tiled == AddTo(chs, Element(S_tile_layer, id,
                                    TileLayerInfo(<<"mosaic", a.links, layername>>, a.name,
                                                  a.attribution, a.opacity, a.shown,
                                                  TRUE, "1.0")))
        coords == Coords(a.links, known)
        fc == FootprintCollection(coords)
        footprints == AddTo(tiled, Element(S_geo_json, id + 1,
                                           [kind |-> "geojson", data |-> fc,
                                            name |-> a.name \o <<"_", "f", "o", "o", "t",
                                                                 "p", "r", "i", "n", "t", "s">>]))
        bounds == [i \in DOMAIN a.links |-> Step("cog_bounds", a.links[i] \in known)]
    IN IF ~mosaicOk
       THEN [res |-> [err |-> "collaborator"], steps |-> <<Step("cog_mosaic", FALSE)>>,
             children |-> chs, nextId |-> id, fitBounds |-> fb]
       ELSE IF ~layerOk
       THEN [res |-> [err |-> "Exception", cause |-> "collaborator"],
             steps |-> <<Step("cog_mosaic", TRUE), Step("add_tile_layer", FALSE)>>,
             children |-> chs, nextId |-> id, fitBounds |-> fb]
       ELSE IF a.show_footprints
       THEN LET pre == <<Step("cog_mosaic", TRUE), Step("add_tile_layer", TRUE)>> \o bounds
                           \o <<Step("coords_to_geojson", TRUE), Step("GeoJson", TRUE)>>
            IN IF coords = <<>> /\ ~emptyOk
               THEN [res |-> [err |-> "collaborator"],
                     steps |-> pre \o <<Step("get_center", FALSE)>>,
                     children |-> OnFailure(chs, footprints), nextId |-> id + 2, fitBounds |-> fb]
               ELSE [res |-> [err |-> "none"],
                     steps |-> pre \o <<Step("get_center", TRUE), Step("set_center", TRUE)>>,
                     children |-> footprints, nextId |-> id + 2,
                     fitBounds |-> FitBounds(fb, SetCenterFit(GetCenter(fc)[1], GetCenter(fc)[2],
                                                              MosaicZoom))]
       ELSE LET pre == <<Step("cog_mosaic", TRUE), Step("add_tile_layer", TRUE)>>
                center == CogCenter(a.links[1])
            IN IF a.links = <<>>
               THEN [res |-> [err |-> "IndexError"], steps |-> pre,
                     children |-> OnFailure(chs, tiled), nextId |-> id + 1, fitBounds |-> fb]
               ELSE IF ~centerOk
               THEN [res |-> [err |-> "collaborator"],
                     steps |-> pre \o <<Step("cog_center", FALSE)>>,
                     children |-> OnFailure(chs, tiled), nextId |-> id + 1, fitBounds |-> fb]
               ELSE [res |-> [err |-> "none"],
                     steps |-> pre \o <<Step("cog_center", TRUE), Step("set_center", TRUE)>>,
                     children |-> tiled, nextId |-> id + 1,
                     fitBounds |-> FitBounds(fb, SetCenterFit(center[1], center[2],
                                                              MosaicZoom))]

\* Map.add_cog_mosaic
add_cog_mosaic(a, mosaicOk, layerOk, known, centerOk, emptyOk, cap) ==
    LET out == MosaicOutcome(a, mosaicOk, layerOk, known, centerOk, emptyOk,
                             children, nextId, fitBounds)
    IN /\ ncalls < cap
       /\ ncalls' = ncalls + 1
       /\ call' = [op |-> "add_cog_mosaic", args |-> a, steps |-> out.steps] @@ out.res
       /\ children' = out.children
       /\ nextId' = out.nextId
       /\ fitBounds' = out.fitBounds
       /\ UNCHANGED <<styleDefaults, rootChildren, options, files, dirs>>

MosaicArgs ==
    [links : {<<"c1", "c2">>, <<"c2", "c1">>, <<"c2">>},
     name : {<<"m", " ", "2">>},
     attribution : {"."}, opacity : {"1.0"}, shown : {TRUE},
     show_footprints : BOOLEAN]

\* lines 787-797: the links read from the file or the URL, without the first skip_rows
\* lines; fetched: whether urlopen succeeds
ReadLinks(filepath, skip_rows, fetched, fs) ==
    IF StartsWith(filepath, S_http)
    THEN IF fetched THEN [err |-> "none", links |-> SubSeq(<<"c2", "c1">>, skip_rows + 1, 2)]
         ELSE [err |-> "collaborator"]
    ELSE IF AbsPath(filepath) \notin DOMAIN fs THEN [err |-> "FileNotFoundError"]
    ELSE LET lines == fs[AbsPath(filepath)].lines
         IN [err |-> "none", links |-> SubSeq(lines, skip_rows + 1, Len(lines))]

\* Map.add_cog_mosaic_from_file
add_cog_mosaic_from_file(a, fetched, mosaicOk, layerOk, known, centerOk, emptyOk, cap) ==
    LET read == ReadLinks(a.filepath, a.skip_rows, fetched, files)
        out == MosaicOutcome([links |-> read.links, name |-> a.name,
                              attribution |-> a.attribution, opacity |-> a.opacity,
                              shown |-> a.shown, show_footprints |-> a.show_footprints],
                             mosaicOk, layerOk, known, centerOk, emptyOk,
                             children, nextId, fitBounds)
    IN /\ ncalls < cap
       /\ ncalls' = ncalls + 1
       /\ UNCHANGED <<styleDefaults, rootChildren, options, files, dirs>>
       /\ IF read.err # "none"
          THEN /\ call' = [op |-> "add_cog_mosaic_from_file", args |-> a,
                           steps |-> <<Step("read", FALSE)>>, err |-> read.err]
               /\ UNCHANGED <<children, nextId, fitBounds>>
          ELSE /\ call' = [op |-> "add_cog_mosaic_from_file", args |-> a,
                           links |-> read.links,
                           steps |-> <<Step("read", TRUE)>> \o out.steps] @@ out.res
               /\ children' = out.children
               /\ nextId' = out.nextId
               /\ fitBounds' = out.fitBounds

MosaicFileArgs ==
    [filepath : {P_links, P_missing, <<"h", "t", "t", "p", ":", "l">>},
     skip_rows : {1, 3}, name : {<<"m">>},
     attribution : {"."}, opacity : {"1.0"}, shown : {TRUE},
     show_footprints : BOOLEAN]

(***************************************************************************)
(* add_wms_layer                                                           *)
(***************************************************************************)
S_wms_tile_layer ==
    <<"w", "m", "s", "_", "t", "i", "l", "e", "_", "l", "a", "y", "e", "r">>

\* the WmsTileLayer of lines 262-275; the parameters the calls leave out have the
\* defaults of lines 235-241
WmsLayerInfo(a) ==
    [kind |-> "wms", url |-> a.url, layers |-> a.layers, name |-> a.name, attr |-> "",
     overlay |-> TRUE, control |-> TRUE, show |-> a.shown, styles |-> "",
     fmt |-> "image/png", transparent |-> FALSE, version |-> "1.1.1"]

\* an add_wms_layer with no try block around the constructor
WmsOutcome_unwrapped(a, ok, chs, id) ==
    IF ok
    THEN [res |-> [err |-> "none"], steps |-> <<Step("WmsTileLayer", TRUE)>>,
          children |-> AddTo(chs, Element(S_wms_tile_layer, id, WmsLayerInfo(a))),
          nextId |-> id + 1]
    ELSE [res |-> [err |-> "collaborator"], steps |-> <<Step("WmsTileLayer", FALSE)>>,
          children |-> chs, nextId |-> id]

\* the outcome of add_wms_layer; ok: whether the WmsTileLayer constructor and add_to
\* succeed.  Their exception e is caught and Exception(e) is raised (lines 276-277).
WmsOutcome(a, ok, chs, id) ==
    IF ok
    THEN [res |-> [err |-> "none"], steps |-> <<Step("WmsTileLayer", TRUE)>>,
          children |-> AddTo(chs, Element(S_wms_tile_layer, id, WmsLayerInfo(a))),
          nextId |-> id + 1]
    ELSE [res |-> [err |-> "Exception", cause |-> "collaborator"],
          steps |-> <<Step("WmsTileLayer", FALSE)>>,
          children |-> chs, nextId |-> id]

\* Map.add_wms_layer
add_wms_layer(a, ok, cap) ==
    LET out == WmsOutcome(a, ok, children, nextId)
    IN /\ ncalls < cap
       /\ ncalls' = ncalls + 1
       /\ call' = [op |-> "add_wms_layer", args |-> a, steps |-> out.steps] @@ out.res
       /\ children' = out.children
       /\ nextId' = out.nextId
       /\ UNCHANGED <<styleDefaults, rootChildren, options, fitBounds, files, dirs>>

WmsArgs == [url : {"wms"}, layers : {"l1"}, name : {"WMS"}, shown : BOOLEAN]

(***************************************************************************)
(* The specification of the tile-service layers: a default Map, then       *)
(* add_wms_layer, add_cog_layer, add_stac_layer, add_cog_mosaic and        *)
(* add_cog_mosaic_from_file calls with any outcome of the collaborators.   *)
(***************************************************************************)
\* the largest number of tile-service calls
MaxCogCalls == 2

\* the outcomes of the lookups a mosaic call can make: the bounds lookups and get_center
\* are made only with show_footprints, the center lookup only without
KnownSets(a) == IF a.show_footprints THEN SUBSET {"c1", "c2"} ELSE {{}}
CenterOutcomes(a) == IF a.show_footprints THEN {TRUE} ELSE BOOLEAN
EmptyOutcomes(a) == IF a.show_footprints THEN BOOLEAN ELSE {TRUE}

NextCog ==
    \/ \E a \in WmsArgs, ok \in BOOLEAN : add_wms_layer(a, ok, MaxCogCalls)
    \/ \E a \in CogLayerArgs, tileOk \in BOOLEAN, centerOk \in BOOLEAN, layerOk \in BOOLEAN :
           add_cog_layer(a, tileOk, centerOk, layerOk, MaxCogCalls)
    \/ \E a \in StacLayerArgs, tileOk \in BOOLEAN, centerOk \in BOOLEAN, layerOk \in BOOLEAN :
           add_stac_layer(a, tileOk, centerOk, layerOk, MaxCogCalls)
    \/ \E a \in MosaicArgs, mosaicOk \in BOOLEAN, layerOk \in BOOLEAN :
       \E known \in KnownSets(a), centerOk \in CenterOutcomes(a), emptyOk \in EmptyOutcomes(a) :
           add_cog_mosaic(a, mosaicOk, layerOk, known, centerOk, emptyOk, MaxCogCalls)
    \/ \E a \in MosaicFileArgs, mosaicOk \in BOOLEAN, layerOk \in BOOLEAN :
       \E fetched \in (IF StartsWith(a.filepath, S_http) THEN BOOLEAN ELSE {TRUE}),
          known \in KnownSets(a), centerOk \in CenterOutcomes(a), emptyOk \in EmptyOutcomes(a) :
           add_cog_mosaic_from_file(a, fetched, mosaicOk, layerOk, known, centerOk, emptyOk,
                                    MaxCogCalls)

SpecCog == InitDefault /\ [][NextCog]_vars

(***************************************************************************)
(* Layers fed from a GeoDataFrame: the add_osm_from_* methods,             *)
(* add_osm_from_view, add_gdf and add_gdf_from_postgis.                    *)
(*                                                                         *)
(* The OSM query, gdf_to_geojson and read_postgis are collaborators: each  *)
(* returns a GeoDataFrame (GeoJSON) or raises.                             *)
(***************************************************************************)
\* gdf.__geo_interface__, gdf_to_geojson(gdf, epsg="4326")
GeoInterface(gdf) == [kind |-> "dict", data |-> "gdf", valid |-> TRUE, bounds |-> gdf.bounds]

\* the default of fill_colors (lines 370, 414, 455, 496, 535, 576)
DefaultFillColors == <<"black">>

\* the keyword arguments the add_osm_from_* methods pass to add_geojson (lines
\* 394-402): always all of them, a parameter left out having its default
OsmKwargs(method, kwargs, defaults) ==
    [style |-> IF Has(kwargs, "style") THEN kwargs.style ELSE defaults[method],
     hover_style |-> IF Has(kwargs, "hover_style") THEN kwargs.hover_style ELSE <<>>,
     style_callback |-> IF Has(kwargs, "style_callback") THEN kwargs.style_callback ELSE None,
     fill_colors |-> IF Has(kwargs, "fill_colors") THEN kwargs.fill_colors
                     ELSE DefaultFillColors]

\* the outcome of an add_osm_from_* method; gdf: the result of the OSM query,
\* osmOk: whether the query succeeds, pick: the choice of random_color
OsmOutcome(method, a, gdf, osmOk, pick, chs, id, fb, defaults, fs, ds) ==
    LET kw == OsmKwargs(method, a.kwargs, defaults)
        out == GeojsonOutcome([in_geojson |-> GeoInterface(gdf),
                               layer_name |-> a.layer_name, kwargs |-> kw],
                              TRUE, chs, id, fs, ds)
        applied == osmOk /\ out.res.err = "none"
        after == StyleAfter(kw, applied, pick)
        effect == IF Has(a.kwargs, "style") THEN [style_after |-> after] ELSE <<>>
    IN [res |-> (IF ~osmOk THEN [err |-> "collaborator"] ELSE out.res) @@ effect,
        children |-> IF applied THEN out.children ELSE chs,
        nextId |-> IF applied THEN out.nextId ELSE id,
        fitBounds |-> IF applied THEN FitBounds(fb, ZoomToBoundsFit(TotalBounds(gdf)))
                      ELSE fb,
        defaults |-> IF Has(a.kwargs, "style") THEN defaults
                     ELSE [defaults EXCEPT ![method] = after]]

\* Map.add_osm_from_geocode, _address, _place, _point, _polygon, _bbox
add_osm_from(method, a, gdf, osmOk, cap) ==
    /\ ncalls < cap
    /\ ncalls' = ncalls + 1
    /\ \E pick \in Picks(OsmKwargs(method, a.kwargs, styleDefaults), osmOk) :
         LET out == OsmOutcome(method, a, gdf, osmOk, pick, children, nextId,
                               fitBounds, styleDefaults, files, dirs)
         IN /\ call' = [op |-> method, args |-> a, gdf |-> gdf] @@ out.res
            /\ children' = out.children
            /\ nextId' = out.nextId
            /\ fitBounds' = out.fitBounds
            /\ styleDefaults' = out.defaults
    /\ UNCHANGED <<rootChildren, options, files, dirs>>

\* an add_osm_from_view that queries the view's bounding box, as the methods above do
ViewOutcome_queried(a, chs, id, fb) ==
    [res |-> [err |-> "none", queries |-> 1],
     children |-> AddTo(chs, Element(S_geo_json, id, [kind |-> "geojson", name |-> a.layer_name])),
     nextId |-> id + 1,
     fitBounds |-> fb]

\* the outcome of add_osm_from_view: its body is `pass` (line 631)
ViewOutcome(a, chs, id, fb) ==
    [res |-> [err |-> "none", queries |-> 0],
     children |-> chs, nextId |-> id, fitBounds |-> fb]

\* Map.add_osm_from_view
add_osm_from_view(a, cap) ==
    LET out == ViewOutcome(a, children, nextId, fitBounds)
    IN /\ ncalls < cap
       /\ ncalls' = ncalls + 1
       /\ call' = [op |-> "add_osm_from_view", args |-> a] @@ out.res
       /\ children' = out.children
       /\ nextId' = out.nextId
       /\ fitBounds' = out.fitBounds
       /\ UNCHANGED <<styleDefaults, rootChildren, options, files, dirs>>

\* the arguments of line 1178 and of line 1207: self.fit_bounds([[south, east], [north, west]])
\* with bounds = [west, south, east, north]
GdfFit(bounds) ==
    [bounds |-> <<<<bounds[2], bounds[3]>>, <<bounds[4], bounds[1]>>>>]

\* the outcome of add_gdf (lines 1167-1178), and of add_gdf_from_postgis after
\* read_postgis (lines 1196-1207); convOk: whether gdf_to_geojson succeeds
GdfOutcome(a, convOk, chs, id, fb, fs, ds) ==
    LET out == GeojsonOutcome([in_geojson |-> GeoInterface(a.gdf),
                               layer_name |-> a.layer_name, kwargs |-> a.kwargs],
                              TRUE, chs, id, fs, ds)
        unchanged == [children |-> chs, nextId |-> id, fitBounds |-> fb]
    IN IF ~convOk
       THEN unchanged @@ [res |-> [err |-> "collaborator"]]
       ELSE IF out.res.err # "none"
       THEN unchanged @@ [res |-> out.res]
       ELSE [res |-> out.res, children |-> out.children, nextId |-> out.nextId,
             fitBounds |-> IF a.zoom_to_layer
                           THEN FitBounds(fb, GdfFit(TotalBounds(a.gdf)))
                           ELSE fb]

\* Map.add_gdf
add_gdf(a, convOk, cap) ==
    LET out == GdfOutcome(a, convOk, children, nextId, fitBounds, files, dirs)
    IN /\ ncalls < cap
       /\ ncalls' = ncalls + 1
       /\ call' = [op |-> "add_gdf", args |-> a] @@ out.res
       /\ children' = out.children
       /\ nextId' = out.nextId
       /\ fitBounds' = out.fitBounds
       /\ UNCHANGED <<styleDefaults, rootChildren, options, files, dirs>>

\* Map.add_gdf_from_postgis; a.gdf: the result of read_postgis, readOk: whether
\* read_postgis succeeds.  fill_colors is popped from the keyword arguments
\* (lines 1192-1193) before they are passed on.
add_gdf_from_postgis(a, readOk, convOk, cap) ==
    LET passed == [a EXCEPT !.kwargs = Restrict(a.kwargs, DOMAIN a.kwargs \ {"fill_colors"})]
        out == IF readOk
               THEN GdfOutcome(passed, convOk, children, nextId, fitBounds, files, dirs)
               ELSE [res |-> [err |-> "collaborator"], children |-> children,
                     nextId |-> nextId, fitBounds |-> fitBounds]
    IN /\ ncalls < cap
       /\ ncalls' = ncalls + 1
       /\ call' = [op |-> "add_gdf_from_postgis", args |-> a] @@ out.res
       /\ children' = out.children
       /\ nextId' = out.nextId
       /\ fitBounds' = out.fitBounds
       /\ UNCHANGED <<styleDefaults, rootChildren, options, files, dirs>>

\* the style keyword arguments of the add_osm_from_* calls
OsmKwargsArgs ==
    {<<>>,
     [style_callback |-> [kind |-> "callback", f |-> "cb"]],
     [style |-> [color |-> "red", weight |-> 2]],
     [style |-> [color |-> "red", weight |-> 2],
      style_callback |-> [kind |-> "callback", f |-> "cb"]],
     [fill_colors |-> <<"c1", "c2">>]}

OsmArgs == [layer_name : {"Untitled"}, kwargs : OsmKwargsArgs]

\* the GeoDataFrame an OSM query returns
OsmGdf == Gdf(<<<<1, 2, 3, 4>>>>)

GdfLayerArgs ==
    [gdf : GdfArgs, layer_name : {"Untitled"}, zoom_to_layer : BOOLEAN,
     kwargs : {<<>>, [fill_colors |-> <<"c1", "c2">>]}]

(***************************************************************************)
(* The specification of the GeoDataFrame-fed layers: a default Map, then   *)
(* add_osm_from_*, add_gdf and add_gdf_from_postgis calls with any outcome *)
(* of their collaborators.                                                 *)
(***************************************************************************)
\* the largest number of calls
MaxGdfCalls == 2

NextGdf ==
    \/ \E method \in OsmMethods, a \in OsmArgs, osmOk \in BOOLEAN :
          add_osm_from(method, a, OsmGdf, osmOk, MaxGdfCalls)
    \/ \E a \in OsmArgs : add_osm_from_view(a, MaxGdfCalls)
    \/ \E a \in GdfLayerArgs, convOk \in BOOLEAN : add_gdf(a, convOk, MaxGdfCalls)
    \/ \E a \in GdfLayerArgs, readOk, convOk \in BOOLEAN :
          add_gdf_from_postgis(a, readOk, convOk, MaxGdfCalls)

SpecGdf == InitDefault /\ [][NextGdf]_vars

(***************************************************************************)
(* Properties.                                                             *)
(***************************************************************************)
\* C1: in every reachable state the map's children contain at most one layer
\* control, whatever add_layer_control, to_html, _repr_mimebundle_ and add_* calls
\* were made.
C1_AtMostOneLayerControl == NumLayerControls(children) <= 1

\* add_layer_control was called on a map that already had a layer control (it is
\* followed by a later child) and added no second one
C1_Witness ==
    /\ call.op = "add_layer_control"
    /\ NumLayerControls(children) = 1
    /\ ~IsLayerControl(children[Len(children)])

\* C2 as stated: after every to_html call that saves the document, whatever the
\* options of the map, a layer control is among the children.
C2_AlwaysLayerControl ==
    (call.op = "to_html" /\ call.err = "none") => NumLayerControls(children) >= 1

\* C2 amended: after a to_html call that saves the document on a map whose
\* layers_control option is true, a layer control is among the children.
C2_LayerControlWhenEnabled ==
    (call.op = "to_html" /\ call.err = "none" /\ options.layersControl = TRUE)
        => NumLayerControls(children) >= 1

\* to_html saved to a caller's path and the map, built with layers_control true,
\* has its layer control
C2_Witness ==
    /\ call.op = "to_html"
    /\ call.err = "none"
    /\ call.outfile # None
    /\ options.layersControl = TRUE
    /\ call.path \in DOMAIN files
    /\ NumLayerControls(children) = 1

\* the name ends in ".html"
IsHtmlName(s) == Len(s) >= 5 /\ SubSeq(s, Len(s) - 4, Len(s)) = <<".", "h", "t", "m", "l">>

\* C3: a to_html call with an outfile not ending in ".html" raises ValueError and
\* leaves files and directories as they were; with an outfile ending in ".html" it
\* succeeds, the parent directory of the path exists and the file at the path holds
\* the document of the map.
C3_ToHtmlOutfile ==
    [][(call'.op = "to_html" /\ call'.outfile # None)
          => IF IsHtmlName(call'.outfile.s)
             THEN /\ call'.err = "none"
                  /\ DirName(AbsPath(call'.outfile.s)) \in dirs'
                  /\ AbsPath(call'.outfile.s) \in DOMAIN files'
                  /\ files'[AbsPath(call'.outfile.s)] = Render(children', rootChildren')
             ELSE /\ call'.err = "ValueError"
                  /\ files' = files
                  /\ dirs' = dirs]_vars

\* to_html saved the document under a directory that did not exist before
C3_Witness ==
    /\ call.op = "to_html"
    /\ call.outfile # None
    /\ call.err = "none"
    /\ DirName(call.path) \notin InitDirs
    /\ DirName(call.path) \in dirs
    /\ call.path \in DOMAIN files

(***************************************************************************)
(* Properties of add_geojson (SpecGeojson).                                *)
(***************************************************************************)
\* the last child of the map
LastChild == children[Len(children)]

\* C4 as stated: add_geojson with a str naming no existing local file raises
\* FileNotFoundError, with an input that is neither str nor dict it raises TypeError.
C4_NotFoundAndTypeErrors ==
    (call.op = "add_geojson")
        => /\ (call.args.in_geojson = Str(P_missing) => call.err = "FileNotFoundError")
           /\ (call.args.in_geojson.kind \notin {"str", "dict"} => call.err = "TypeError")

\* the elements of a sequence
Range(seq) == {seq[i] : i \in DOMAIN seq}

\* C5: every successful add_geojson call appends exactly one GeoJSON layer named
\* layer_name whose style function is: with fill_colors, one that returns a style
\* whose fillColor is an element of fill_colors (each element possible); else the
\* non-null style_callback; else the constant non-empty style dict; else, without a
\* style argument, the constant default style.
C5_StylePrecedence ==
    [][(call'.op = "add_geojson" /\ call'.err = "none")
          => LET kw == call'.args.kwargs
                 layer == children'[Len(children')]
                 f == layer.info.style_function
             IN /\ children' = Append(children, layer)
                /\ layer.cls = S_geo_json
                /\ layer.info.name = call'.args.layer_name
                /\ IF "fill_colors" \in DOMAIN kw
                   THEN /\ f.kind = "random_color"
                        /\ {st.fillColor : st \in StyleValues(f)} = Range(kw.fill_colors)
                   ELSE IF "style_callback" \in DOMAIN kw /\ kw.style_callback # None
                   THEN f = kw.style_callback
                   ELSE IF "style" \in DOMAIN kw /\ kw.style # <<>>
                   THEN StyleValues(f) = {kw.style}
                   ELSE IF "style" \notin DOMAIN kw
                   THEN StyleValues(f) = {[color |-> "#000000", weight |-> 1, opacity |-> 1,
                                            fillOpacity |-> "0.1"]}
                   ELSE TRUE]_vars

\* a layer was attached by a call that gave fill_colors, a style callback and a style
C5_Witness ==
    /\ call.op = "add_geojson"
    /\ call.err = "none"
    /\ {"fill_colors", "style_callback", "style"} \subseteq DOMAIN call.args.kwargs
    /\ call.args.kwargs.style_callback # None
    /\ LastChild.info.style_function.kind = "random_color"

\* C6 as stated: add_geojson with a valid input and a non-empty style dict and no
\* hover_style argument succeeds, whatever the keys of the style dict.
C6_StyleWithoutHover ==
    (/\ call.op = "add_geojson"
     /\ call.args.in_geojson = [kind |-> "dict", data |-> "D2", valid |-> TRUE]
     /\ "style" \in DOMAIN call.args.kwargs
     /\ call.args.kwargs.style # <<>>
     /\ "hover_style" \notin DOMAIN call.args.kwargs)
        => call.err = "none"

(***************************************************************************)
(* Properties of add_legend (SpecLegend).                                  *)
(***************************************************************************)
\* the legend attached last
LastLegend == rootChildren[Len(rootChildren)].info.template

\* the <li> items of a legend, in order
IsItem(line) == "li" \in DOMAIN line
Items(template) == SelectSeq(template, IsItem)

ItemLabels(template) == [i \in DOMAIN Items(template) |-> Items(template)[i].li.label]
ItemColors(template) == [i \in DOMAIN Items(template) |-> Items(template)[i].li.background]

\* the #RRGGBB form of a colour: "#" + s for a 6-character string, s for a
\* 7-character string starting with "#", "#rrggbb" for an RGB tuple
NormalForm(c) ==
    IF c.kind = "tuple"
    THEN [kind |-> "str", s |-> <<"#">> \o Hex2(c.rgb[1]) \o Hex2(c.rgb[2]) \o Hex2(c.rgb[3])]
    ELSE IF Len(c.s) = 6 THEN [kind |-> "str", s |-> <<"#">> \o c.s]
    ELSE c

\* C7 as stated: when a legend_dict and a valid builtin_legend name are both
\* supplied, the rendered entries are those of the legend_dict.
C7_LegendDictFirst ==
    (/\ call.op = "add_legend"
     /\ call.err = "none"
     /\ call.args.legend_dict.kind = "dict"
     /\ call.args.builtin_legend # None)
        => ItemLabels(LastLegend) = Keys(call.args.legend_dict)

\* C7 amended: the labels of an attached legend are those of the builtin legend if
\* builtin_legend is given, else the keys of legend_dict if given, else the labels
\* argument if given, else the five default labels; with a builtin legend the colours
\* are its colours prefixed with "#".
C7_BuiltinFirst ==
    (call.op = "add_legend" /\ call.err = "none")
        => LET a == call.args
           IN IF a.builtin_legend # None
              THEN /\ ItemLabels(LastLegend) = Keys(builtin_legends[a.builtin_legend.s])
                   /\ ItemColors(LastLegend) =
                          [i \in DOMAIN builtin_legends[a.builtin_legend.s].items |->
                              NormalForm(Values(builtin_legends[a.builtin_legend.s])[i])]
              ELSE IF a.legend_dict # None
              THEN ItemLabels(LastLegend) = Keys(a.legend_dict)
              ELSE IF a.labels # None
              THEN ItemLabels(LastLegend) = a.labels.items
              ELSE ItemLabels(LastLegend) = <<"One", "Two", "Three", "Four", "etc">>

\* a legend was attached by a call that gave both a legend_dict and a builtin legend
C7_Witness ==
    /\ call.op = "add_legend"
    /\ call.err = "none"
    /\ call.args.legend_dict.kind = "dict"
    /\ call.args.builtin_legend # None
    /\ ItemLabels(LastLegend) = <<"Water", "Forest">>

\* a list of colours add_legend accepts: all RGB tuples, all 7-character "#" strings,
\* or all 6-character strings
ValidColors(items) ==
    \/ \A i \in DOMAIN items : items[i].kind = "tuple"
    \/ \A i \in DOMAIN items :
           items[i].kind = "str" /\ Len(items[i].s) = 7 /\ items[i].s[1] = "#"
    \/ \A i \in DOMAIN items : items[i].kind = "str" /\ Len(items[i].s) = 6

\* the line of the template that holds the title
TitleLine(template) == (CHOOSE i \in DOMAIN template :
                           ~IsItem(template[i]) /\ template[i].index = 36)

\* C8: add_legend with a labels list and a list of valid colours of the same length
\* (and no legend_dict or builtin_legend) attaches a legend with len(labels) items,
\* the i-th with labels[i] and the normal form of colors[i], and with the title
\* argument in place of the template's title.
C8_LegendItems ==
    (/\ call.op = "add_legend"
     /\ call.args.legend_dict = None
     /\ call.args.builtin_legend = None
     /\ call.args.labels # None
     /\ call.args.labels.kind = "list"
     /\ call.args.colors # None
     /\ call.args.colors.kind = "list"
     /\ ValidColors(call.args.colors.items)
     /\ Len(call.args.labels.items) = Len(call.args.colors.items))
        => /\ call.err = "none"
           /\ Len(Items(LastLegend)) = Len(call.args.labels.items)
           /\ ItemLabels(LastLegend) = call.args.labels.items
           /\ ItemColors(LastLegend) =
                  [i \in DOMAIN call.args.colors.items |-> NormalForm(call.args.colors.items[i])]
           /\ LastLegend[TitleLine(LastLegend)].text =
                  <<"<div class='legend-title'>", call.args.title, "</div>">>

\* a legend with two items was attached from two labels and two 6-character colours
\* under a title of the caller
C8_Witness ==
    /\ call.op = "add_legend"
    /\ call.err = "none"
    /\ call.args.legend_dict = None
    /\ call.args.builtin_legend = None
    /\ call.args.title = "T"
    /\ call.args.labels = List(<<"b", "a">>)
    /\ call.args.colors = List(<<C_6a, C_6b>>)
    /\ Len(Items(LastLegend)) = 2

\* the colours a call gives: the values of the legend_dict if there is one, else the
\* colors list
GivenColors(a) ==
    IF a.legend_dict # None THEN Values(a.legend_dict) ELSE a.colors.items

\* C9 as stated: the colours add_legend has normalised, given as the colors list or
\* as the values of legend_dict, are the normal forms of the colours given.
C9_Normalization ==
    (/\ call.op = "add_legend"
     /\ call.err = "none"
     /\ call.args.builtin_legend = None
     /\ call.args.legend_dict # None \/ call.args.colors # None)
        => call.colors = [i \in DOMAIN GivenColors(call.args) |->
                             NormalForm(GivenColors(call.args)[i])]

\* the length of a labels or colors argument, 5 for an omitted one
EffectiveLen(arg) == IF arg = None THEN 5 ELSE Len(arg.items)

\* C10 as stated: add_legend raises ValueError whenever the labels list and the colors
\* list, each a list or omitted, differ in length.
C10_LengthMismatch ==
    (/\ call.op = "add_legend"
     /\ call.args.labels = None \/ call.args.labels.kind = "list"
     /\ call.args.colors = None \/ call.args.colors.kind = "list"
     /\ EffectiveLen(call.args.labels) # EffectiveLen(call.args.colors))
        => call.err = "ValueError"

\* C11 as stated: add_legend fails with a ValueError or a TypeError, and attaches
\* nothing, whenever colors is given in a shape other than a list of RGB tuples, a list
\* of 7-character "#" strings or a list of 6-character strings, and whenever
\* builtin_legend is not the name of a builtin legend.
C11_ColorsShape ==
    [][(/\ call'.op = "add_legend"
        /\ \/ /\ call'.args.colors # None
              /\ ~(call'.args.colors.kind = "list" /\ ValidColors(call'.args.colors.items))
           \/ /\ call'.args.builtin_legend # None
              /\ call'.args.builtin_legend.s \notin DOMAIN builtin_legends)
           => /\ call'.err \in {"ValueError", "TypeError"}
              /\ rootChildren' = rootChildren
              /\ children' = children]_vars

\* C12 as stated: with a legend_dict that is a mapping (and no builtin_legend),
\* add_legend succeeds whatever labels and colors are, and renders exactly the entries
\* of legend_dict.
C12_LegendDictIgnoresLists ==
    (/\ call.op = "add_legend"
     /\ call.args.legend_dict # None
     /\ call.args.legend_dict.kind = "dict"
     /\ call.args.builtin_legend = None)
        => /\ call.err = "none"
           /\ ItemLabels(LastLegend) = Keys(call.args.legend_dict)
           /\ Len(Items(LastLegend)) = Len(Keys(call.args.legend_dict))

\* C13: zoom_to_bounds([minx, miny, maxx, maxy]) makes exactly one fit_bounds call, on
\* [[miny, minx], [maxy, maxx]] and with no max_zoom; zoom_to_gdf makes the same call
\* for the total bounds of the geo-dataframe; set_center(lon, lat, zoom) makes exactly
\* one fit_bounds call, on [[lat, lon], [lat, lon]] with max_zoom = zoom.
C13_ViewFits ==
    [][/\ call'.op = "zoom_to_bounds" =>
              LET b == call'.bounds
              IN fitBounds' = [bounds |-> <<<<b[2], b[1]>>, <<b[4], b[3]>>>>,
                               n |-> fitBounds.n + 1]
       /\ call'.op = "zoom_to_gdf" =>
              LET boxes == call'.gdf.bounds
                  I == DOMAIN boxes
                  minx == CHOOSE x \in {boxes[i][1] : i \in I} : \A i \in I : x <= boxes[i][1]
                  miny == CHOOSE y \in {boxes[i][2] : i \in I} : \A i \in I : y <= boxes[i][2]
                  maxx == CHOOSE x \in {boxes[i][3] : i \in I} : \A i \in I : x >= boxes[i][3]
                  maxy == CHOOSE y \in {boxes[i][4] : i \in I} : \A i \in I : y >= boxes[i][4]
              IN fitBounds' = [bounds |-> <<<<miny, minx>>, <<maxy, maxx>>>>,
                               n |-> fitBounds.n + 1]
       /\ call'.op = "set_center" =>
              fitBounds' = [bounds |-> <<<<call'.lat, call'.lon>>, <<call'.lat, call'.lon>>>>,
                            max_zoom |-> call'.zoom, n |-> fitBounds.n + 1]]_vars

\* zoom_to_gdf has fitted the view to the total bounds of a geo-dataframe of two
\* features, after another view call
C13_Witness ==
    /\ call.op = "zoom_to_gdf"
    /\ Len(call.gdf.bounds) = 2
    /\ fitBounds.bounds = <<<<0, -5>>, <<8, 3>>>>
    /\ fitBounds.n = 3

\* C14: a Map just constructed has made one fit_bounds call, on the zero-size box at
\* its center (center if given, else location if given, else [40, -100]) with its zoom
\* (zoom if given, else zoom_start if given, else 4) as max_zoom: the call that
\* set_center(lon=center[1], lat=center[0], zoom) makes.
C14_ConstructionView ==
    call.op = "__init__" =>
        LET kw == call.kwargs
            center == IF "center" \in DOMAIN kw THEN kw.center
                      ELSE IF "location" \in DOMAIN kw THEN kw.location
                      ELSE <<40, -100>>
            zoom == IF "zoom" \in DOMAIN kw THEN kw.zoom
                    ELSE IF "zoom_start" \in DOMAIN kw THEN kw.zoom_start
                    ELSE 4
        IN /\ fitBounds = [bounds |-> <<center, center>>, max_zoom |-> zoom, n |-> 1]
           /\ fitBounds = FitBounds([n |-> 0], SetCenterFit(center[2], center[1], zoom))

\* a Map constructed with center, location, zoom and zoom_start all given
C14_Witness ==
    /\ call.op = "__init__"
    /\ {"center", "location", "zoom", "zoom_start"} \subseteq DOMAIN call.kwargs
    /\ call.kwargs.center # call.kwargs.location
    /\ call.kwargs.zoom # call.kwargs.zoom_start
    /\ fitBounds = [bounds |-> <<<<10, 20>>, <<10, 20>>>>, max_zoom |-> 7, n |-> 1]

IsTileLayer(e) == e.cls = S_tile_layer
IsGoogleLayer(e) == e.cls = S_tile_layer /\ "attr" \in DOMAIN e.info /\ e.info.attr = "Google"

\* the lyrs parameter of the Google layer a google_map value selects
SelectedLyrs(v) ==
    IF Upper(v) = S_HYBRID THEN "y"
    ELSE IF Upper(v) = S_TERRAIN THEN "p"
    ELSE IF Upper(v) = S_SATELLITE THEN "s"
    ELSE "m"

\* the name of the Google layer with a lyrs parameter
LyrsName(lyrs) ==
    IF lyrs = "p" THEN "Google Terrain"
    ELSE IF lyrs \in {"y", "s"} THEN "Google Satellite"
    ELSE "Google Maps"

\* a Map just constructed has exactly one Google layer, the one google_map selects
\* without regard to case, ROADMAP when google_map is absent or unrecognized
GoogleLayerSelected ==
    LET kw == call.kwargs
        lyrs == IF "google_map" \in DOMAIN kw THEN SelectedLyrs(kw.google_map.s) ELSE "m"
        google == SelectSeq(children, IsGoogleLayer)
    IN /\ Len(google) = 1
       /\ google[1].info.tiles = lyrs
       /\ google[1].info.name = LyrsName(lyrs)
       /\ children[Len(children)] = google[1]

\* C15 as stated: construction attaches the Google layer google_map selects, and a Map
\* constructed with google_map=None has no tile layer at all.
C15_NoTileLayerWhenNull ==
    call.op = "__init__" =>
        IF "google_map" \in DOMAIN call.kwargs /\ call.kwargs.google_map = None
        THEN SelectSeq(children, IsTileLayer) = <<>>
        ELSE GoogleLayerSelected

\* C15 amended: construction attaches the Google layer google_map selects, and a Map
\* constructed with google_map=None has no Google layer: its only tile layer is the
\* one folium.Map creates from its tiles option, OpenStreetMap unless tiles is None.
C15_NoGoogleLayerWhenNull ==
    call.op = "__init__" =>
        IF "google_map" \in DOMAIN call.kwargs /\ call.kwargs.google_map = None
        THEN /\ SelectSeq(children, IsGoogleLayer) = <<>>
             /\ LET tiles == SelectSeq(children, IsTileLayer)
                IN IF "tiles" \in DOMAIN call.kwargs /\ call.kwargs.tiles = None
                   THEN tiles = <<>>
                   ELSE Len(tiles) = 1 /\ tiles[1].info.name = "openstreetmap"
        ELSE GoogleLayerSelected

\* a Map constructed with google_map=None and the default tiles: no Google layer, and
\* the OpenStreetMap layer of folium.Map
C15_Witness ==
    /\ call.op = "__init__"
    /\ DOMAIN call.kwargs = {"google_map"}
    /\ call.kwargs.google_map = None
    /\ SelectSeq(children, IsGoogleLayer) = <<>>
    /\ Len(SelectSeq(children, IsTileLayer)) = 1

\* the number of children of a class
NumOfClass(chs, cls) == Cardinality({i \in DOMAIN chs : chs[i].cls = cls})

\* the effective value of a boolean option of the constructor
Effective(kw, k, default) == IF k \in DOMAIN kw THEN kw[k] ELSE default

\* C16: a Map just constructed has exactly one fullscreen, draw, measure and lat/lon
\* control for each of these options that is true or absent and none for one that is
\* false, exactly one minimap if minimap_control is true and none if it is false or
\* absent; layers_control is stored in the options (true when absent) and no layer
\* control is attached.
C16_ControlGates ==
    call.op = "__init__" =>
        LET kw == call.kwargs
            One(b) == IF b THEN 1 ELSE 0
        IN /\ NumOfClass(children, S_fullscreen) = One(Effective(kw, "fullscreen_control", TRUE))
           /\ NumOfClass(children, S_draw_control) = One(Effective(kw, "draw_control", TRUE))
           /\ NumOfClass(children, S_measure_control) = One(Effective(kw, "measure_control", TRUE))
           /\ NumOfClass(children, S_lat_lng_popup) = One(Effective(kw, "latlon_control", TRUE))
           /\ NumOfClass(children, S_mini_map) = One(Effective(kw, "minimap_control", FALSE))
           /\ NumOfClass(children, S_layer_control) = 0
           /\ options.layersControl = Effective(kw, "layers_control", TRUE)

\* a Map constructed with the draw control switched off, the minimap switched on and
\* layers_control false
C16_Witness ==
    /\ call.op = "__init__"
    /\ call.kwargs = [draw_control |-> FALSE, minimap_control |-> TRUE, layers_control |-> FALSE]
    /\ NumOfClass(children, S_mini_map) = 1
    /\ NumOfClass(children, S_draw_control) = 0
    /\ NumOfClass(children, S_fullscreen) = 1

\* the extension of the file add_vector opens, with its letters in upper case
UpperExt(a) ==
    Upper(SplitExt(IF StartsWith(a.filename, S_http) THEN a.filename ELSE AbsPath(a.filename)))

\* C17: add_vector takes exactly one of three paths by the extension of filename,
\* whatever the case of its letters: for ".shp" its only call is add_shp(filename,
\* layer_name, **kwargs); for ".json" and ".geojson" its only call is
\* add_geojson(filename, layer_name, **kwargs); for every other extension it calls
\* vector_to_geojson with the bbox, mask and rows of the caller and epsg "4326", and
\* then, if the conversion succeeded, add_geojson with its result.
C17_VectorDispatch ==
    call.op = "add_vector" =>
        LET a == call.args
            route == call.route
            fns == [i \in DOMAIN route |-> route[i].fn]
        IN IF UpperExt(a) = <<".", "S", "H", "P">>
           THEN fns = <<"add_shp">> /\ route[1].layer_name = a.layer_name
           ELSE IF UpperExt(a) \in {<<".", "J", "S", "O", "N">>,
                                    <<".", "G", "E", "O", "J", "S", "O", "N">>}
           THEN fns = <<"add_geojson">> /\ route[1].layer_name = a.layer_name
                /\ route[1].in_geojson.kind = "str"
           ELSE /\ fns \in {<<"vector_to_geojson">>, <<"vector_to_geojson", "add_geojson">>}
                /\ route[1].bbox = a.bbox
                /\ route[1].mask = a.mask
                /\ route[1].rows = a.rows
                /\ route[1].epsg = "4326"
                /\ Len(fns) = 2 => /\ route[2].in_geojson.kind = "dict"
                                   /\ route[2].layer_name = a.layer_name
                /\ Len(fns) = 1 => call.err # "none"

\* add_vector has taken the shapefile path for a file named V.SHP, after a call that
\* took the generic path and attached the converted data
C17_Witness ==
    /\ call.op = "add_vector"
    /\ call.args.filename = <<"V", ".", "S", "H", "P">>
    /\ call.route[1].fn = "add_shp"
    /\ \E i \in DOMAIN children :
           children[i].cls = S_geo_json /\ children[i].info.data.data = "vector"

\* the names of the shapefiles at the top level of a remote archive
TopLevelShp(url) ==
    {m.name : m \in {x \in Archive(url) :
                        EndsWith(x.name, S_shp) /\ \A i \in DOMAIN x.name : x.name[i] # "/"}}

\* C18 as stated: whatever calls were made before, an add_shp call that downloads a
\* remote zip archive with no .shp file at its top level raises FileNotFoundError and
\* leaves the children of the map as they were.
C18_NoShapefileInArchive ==
    [][(/\ call'.op = "add_shp"
        /\ StartsWith(call'.args.in_shp, S_http)
        /\ EndsWith(call'.args.in_shp, S_zip)
        /\ call'.dl
        /\ TopLevelShp(call'.args.in_shp) = {})
           => /\ call'.err = "FileNotFoundError"
              /\ children' = children]_vars

\* the names of the steps of a call, in the order they were made
StepNames(steps) == [i \in DOMAIN steps |-> steps[i].fn]

IsPrefix(s, t) == Len(s) <= Len(t) /\ s = SubSeq(t, 1, Len(s))

\* C19: add_cog_layer and add_stac_layer look the tile URL up, then the center, then
\* attach one tile layer, then center the view on the (lon, lat) point returned at zoom
\* 10; a call whose tile or center lookup fails raises and leaves the children of the
\* map and its view as they were.
C19_LookupsBeforeLayer ==
    [][call'.op \in {"add_cog_layer", "add_stac_layer"} =>
          LET steps == call'.steps
              order == IF call'.op = "add_cog_layer"
                       THEN <<"cog_tile", "cog_center", "add_tile_layer", "set_center">>
                       ELSE <<"stac_tile", "stac_center", "add_tile_layer", "set_center">>
              point == CogCenter(call'.args.url)
          IN /\ IsPrefix(StepNames(steps), order)
             /\ (\E i \in DOMAIN steps : i <= 2 /\ ~steps[i].ok)
                    => /\ call'.err # "none"
                       /\ children' = children
                       /\ fitBounds' = fitBounds
             /\ call'.err # "none" => fitBounds' = fitBounds
             /\ call'.err = "none"
                    => /\ StepNames(steps) = order
                       /\ Len(children') = Len(children) + 1
                       /\ SubSeq(children', 1, Len(children)) = children
                       /\ children'[Len(children')].cls = S_tile_layer
                       /\ children'[Len(children')].info.name = call'.args.name
                       /\ fitBounds' = [bounds |-> <<<<point[2], point[1]>>, <<point[2], point[1]>>>>,
                                        max_zoom |-> 10, n |-> fitBounds.n + 1]]_vars

\* add_cog_layer has attached a tile layer and centered the view on c2 at zoom 10,
\* after a call that failed and left the map as it was
C19_Witness ==
    /\ call.op = "add_cog_layer"
    /\ call.err = "none"
    /\ call.args.url = "c2"
    /\ ncalls = 2
    /\ Len(children) = Len(InitChildren(<<>>)) + 1
    /\ fitBounds = [bounds |-> <<<<23, 12>>, <<23, 12>>>>, max_zoom |-> 10, n |-> 2]

\* the links of a mosaic call whose bounds lookup succeeded, in order
Remaining(c) ==
    LET idx == {i \in DOMAIN c.args.links :
                   \E j \in DOMAIN c.steps :
                       /\ c.steps[j].fn = "cog_bounds" /\ c.steps[j].ok
                       /\ Cardinality({k \in 1..j : c.steps[k].fn = "cog_bounds"}) = i}
    IN SelectSeq([i \in DOMAIN c.args.links |-> IF i \in idx THEN c.args.links[i] ELSE "skipped"],
                 LAMBDA l : l # "skipped")

\* the fit_bounds arguments of a view centered on a (lon, lat) point at zoom 6
CenteredAtSix(point) ==
    [bounds |-> <<<<point[2], point[1]>>, <<point[2], point[1]>>>>, max_zoom |-> 6]

\* the (lon, lat) center of the boxes of some COGs
Centroid(links) ==
    LET xs == {CogBounds(links[i])[1] : i \in DOMAIN links} \cup {CogBounds(links[i])[3] : i \in DOMAIN links}
        ys == {CogBounds(links[i])[2] : i \in DOMAIN links} \cup {CogBounds(links[i])[4] : i \in DOMAIN links}
    IN <<(Min(xs) + Max(xs)) \div 2, (Min(ys) + Max(ys)) \div 2>>

\* an add_cog_mosaic call with show_footprints=True whose mosaic tile layer was created
FootprintCall(c) ==
    /\ c.op = "add_cog_mosaic"
    /\ c.args.show_footprints
    /\ \E j \in DOMAIN c.steps : c.steps[j].fn = "add_tile_layer" /\ c.steps[j].ok

\* the call attached the mosaic tile layer and a footprint layer over the remaining COGs
FootprintsAttached(c, before, after) ==
    /\ Len(after) = Len(before) + 2
    /\ SubSeq(after, 1, Len(before)) = before
    /\ after[Len(before) + 1].cls = S_tile_layer
    /\ after[Len(before) + 1].info.name = c.args.name
    /\ after[Len(before) + 2].cls = S_geo_json
    /\ after[Len(before) + 2].info.data.features =
           [i \in DOMAIN Remaining(c) |-> CogBounds(Remaining(c)[i])]

\* C20 as stated: an add_cog_mosaic call with show_footprints=True skips the COGs whose
\* bounds lookup fails, attaches the mosaic tile layer and a footprint layer over the
\* remaining COGs, and centers the view at zoom 6 on the centroid of the remaining
\* footprints, or on the center of the first COG when the lookup failed for every COG.
C20_FootprintsTolerant ==
    [][FootprintCall(call') =>
          /\ call'.err = "none"
          /\ FootprintsAttached(call', children, children')
          /\ fitBounds' = CenteredAtSix(IF Remaining(call') # <<>>
                                        THEN Centroid(Remaining(call'))
                                        ELSE CogCenter(call'.args.links[1]))
                          @@ [n |-> fitBounds.n + 1]]_vars

\* the part of C20 that holds: the same, for the calls in which the bounds lookup
\* succeeded for one COG at least
C20_SomeFootprint ==
    [][(FootprintCall(call') /\ Remaining(call') # <<>>) =>
          /\ call'.err = "none"
          /\ FootprintsAttached(call', children, children')
          /\ fitBounds' = CenteredAtSix(Centroid(Remaining(call'))) @@ [n |-> fitBounds.n + 1]]_vars

IsMosaicCall(c) == c.op \in {"add_cog_mosaic", "add_cog_mosaic_from_file"}

\* the step of a call with a name, when the call made it
MadeStep(c, fn, ok) == \E j \in DOMAIN c.steps : c.steps[j].fn = fn /\ c.steps[j].ok = ok

\* C21: add_cog_mosaic and add_cog_mosaic_from_file attach the mosaic tile layer before
\* the footprints and the center are computed and nothing detaches it: after a call
\* that created the tile layer the children are those before the call, then the tile
\* layer, then at most the footprint layer, whether the call failed or not; a call that
\* fails after that leaves the view as it was.
C21_NoRollback ==
    [][(IsMosaicCall(call') /\ MadeStep(call', "add_tile_layer", TRUE)) =>
          /\ Len(children') \in {Len(children) + 1, Len(children) + 2}
          /\ SubSeq(children', 1, Len(children)) = children
          /\ children'[Len(children) + 1].cls = S_tile_layer
          /\ children'[Len(children) + 1].info.name = call'.args.name
          /\ call'.err # "none" => fitBounds' = fitBounds]_vars

\* add_cog_mosaic_from_file has failed after it attached the mosaic tile layer: the
\* tile layer is the last child, there is no footprint layer and the view is the one
\* of the constructor
C21_Witness ==
    /\ call.op = "add_cog_mosaic_from_file"
    /\ call.err # "none"
    /\ MadeStep(call, "add_tile_layer", TRUE)
    /\ Len(children) = Len(InitChildren(<<>>)) + 1
    /\ children[Len(children)].cls = S_tile_layer
    /\ children[Len(children)].info.name = call.args.name
    /\ fitBounds.n = 1

(***************************************************************************)
(* Properties of the unsupported operations (Spec).                        *)
(***************************************************************************)
IsStubCall(c) == c.op \in Stubs

Names(message, word) == \E i \in 1..Len(message) : message[i] = word

\* C22: a call of any of the unsupported operations (the nineteen Map methods
\* and the module functions linked_maps and split_map), in any state of the
\* map, fails with a not-supported error whose message names the ipyleaflet
\* backend, and leaves the children and the options of the map as they were.
C22_StubsFailAndFrame ==
    [][IsStubCall(call') =>
          /\ call'.err = "NotImplementedError"
          /\ Names(call'.message, "ipyleaflet")
          /\ children' = children
          /\ options' = options]_vars

\* A stub has failed as the second or a later call, on a map that has more
\* children than the default construction gives.
C22_Witness ==
    /\ IsStubCall(call)
    /\ call.err = "NotImplementedError"
    /\ ncalls >= 2
    /\ Len(children) > Len(InitChildren(<<>>))

(***************************************************************************)
(* Properties of the GeoDataFrame-fed layers (SpecGdf).                    *)
(***************************************************************************)
\* C23: add_osm_from_view, called in any state with any arguments, returns
\* without error, makes no OSM query, attaches no layer and leaves the children
\* and the view of the map unchanged.
C23_ViewNoOp ==
    [][call'.op = "add_osm_from_view" =>
          /\ call'.err = "none"
          /\ call'.queries = 0
          /\ children' = children
          /\ fitBounds' = fitBounds]_vars

\* add_osm_from_view has returned on a map to which an earlier call had attached
\* a layer and whose view that call had fitted.
C23_Witness ==
    /\ call.op = "add_osm_from_view"
    /\ call.err = "none"
    /\ Len(children) = Len(InitChildren(<<>>)) + 1
    /\ fitBounds.n = 2

\* the arguments of an add_osm_from_* call pass a style_callback and leave
\* fill_colors at its default
CallbackOnly(kwargs) ==
    /\ Has(kwargs, "style_callback")
    /\ kwargs.style_callback # None
    /\ ~Has(kwargs, "fill_colors")

\* C24: after a successful call of add_osm_from_geocode, _address, _place,
\* _point, _polygon or _bbox with a non-null style_callback and fill_colors left
\* at its default, the style function of the attached layer is that callback.
C24_CallbackApplied ==
    (call.op \in OsmMethods /\ call.err = "none" /\ CallbackOnly(call.args.kwargs)) =>
        children[Len(children)].info.style_function = call.args.kwargs.style_callback

\* bounds = [west, south, east, north] fitted as [[south, west], [north, east]]
SouthWestNorthEast(bounds) == <<<<bounds[2], bounds[1]>>, <<bounds[4], bounds[3]>>>>

\* C27: a successful add_gdf or add_gdf_from_postgis with zoom_to_layer true
\* fits the view to [[south, west], [north, east]] of the bounds of the
\* GeoDataFrame.
C27_GdfFit ==
    [][(/\ call'.op \in {"add_gdf", "add_gdf_from_postgis"}
        /\ call'.err = "none"
        /\ call'.args.zoom_to_layer) =>
          /\ fitBounds'.n = fitBounds.n + 1
          /\ fitBounds'.bounds = SouthWestNorthEast(TotalBounds(call'.args.gdf))]_vars

\* C29: no call modifies a style dict it receives: the dict the caller passed
\* has the same contents when the call returns, and the default-argument dicts
\* of the add_osm_from_* methods keep their contents.
C29_StyleDictsUntouched ==
    [][/\ styleDefaults' = styleDefaults
       /\ Has(call', "style_after") => call'.style_after = call'.args.kwargs.style]_vars

(***************************************************************************)
(* Properties of collaborator failures (SpecCog).                          *)
(***************************************************************************)
\* the layer constructors, called inside a try block (lines 262-277, 304-317)
Constructors == {"add_tile_layer", "WmsTileLayer"}

\* the tile-service lookups, called outside any try block
Lookups == {"cog_tile", "cog_center", "stac_tile", "stac_center", "cog_mosaic", "get_center"}

LastStep(c) == c.steps[Len(c.steps)]

\* call c failed because the collaborator of its last step raised
RaisedBy(c, fns) ==
    /\ c.err # "none"
    /\ c.steps # <<>>
    /\ ~LastStep(c).ok
    /\ LastStep(c).fn \in fns

Wrapped(c) == c.err = "Exception" /\ c.cause = "collaborator"

C26_TempFileRoundTrip ==
    [][(call'.op = "to_html" /\ call'.outfile = None /\ call'.err = "none") =>
          /\ call'.ret = Save(files, call'.path, children', rootChildren')[call'.path]
          /\ DOMAIN files' = DOMAIN files]_vars

\* C30: a to_html call that fails because outfile does not end in ".html"
\* leaves the children of the map as they were before the call.
C30_FailedExportFrame ==
    [][(call'.op = "to_html" /\ call'.err = "ValueError") => children' = children]_vars

(***************************************************************************)
(* Properties of the shapefile cache (SpecVector).                         *)
(***************************************************************************)
\* the remote archives that hold one shapefile, at their top level
OneShpArchives == {U_A, U_B}

\* the contents of the shapefile of such an archive
ShapefileOf(url) == (CHOOSE m \in Archive(url) : TRUE).file.data

\* a successful add_shp call on one of the archives
AddedShpFrom(c) ==
    /\ c.op = "add_shp"
    /\ c.err = "none"
    /\ c.args.in_shp \in OneShpArchives

\* C28: when an add_shp call on a remote zip archive has succeeded, a following
\* successful add_shp call on a remote zip archive attaches a layer built from
\* the shapefile of its own archive.
C28_FreshShapefile ==
    [][(AddedShpFrom(call) /\ AddedShpFrom(call')) =>
          children'[Len(children')].info.data.data = ShapefileOf(call'.args.in_shp)]_vars
====
